---- MODULE Spec2Model ----
(***************************************************************************)
(* LTBox device controller (src/ltbox/device.py) and its process runner    *)
(* (src/ltbox/utils.py) as a state machine.                                *)
(*                                                                         *)
(* One DeviceController object, one thread of control.  An operation of    *)
(* the controller is a call: a stack of frames [fn, pc], one step per      *)
(* external effect (a tool invocation, a sleep, an operator prompt, a      *)
(* serial enumeration).  The device and the operator are the environment:  *)
(* the device's mode and the enumerated serial ports change on their own,  *)
(* every tool invocation ends in one of the outcomes subprocess.run can    *)
(* produce, and the operator may interrupt every blocking step.            *)
(***************************************************************************)
EXTENDS Integers, Sequences, FiniteSets, TLC

VARIABLES
    skip_adb,   \* DeviceController.skip_adb
    edl_port,   \* DeviceController.edl_port
    exists,     \* which tool executables are present on disk
    mode,       \* the mode the device is in (environment)
    ports,      \* what serial.tools.list_ports.comports() enumerates now
    op,         \* the operation called last (or running)
    arg_port,   \* its port argument
    stack,      \* call stack, innermost frame first; <<>> when no call runs
    exc,        \* the exception in flight / the call ended with, or "None"
    ret,        \* the value the last returned function returned
    log,        \* tool invocations of the current call: [exe, args, rc]
    detected,   \* results of the detector calls of the current call
    sleeps,     \* time.sleep(2) calls of the current call's poll loop
    saved,      \* a local of the running function: `output`, the captured
                \* stdout, or the exception being handled
    interrupted,\* the operator pressed Ctrl+C during the current call
    enum_ok,    \* the current call's last comports() returned (it did not raise)
    effects,    \* settle delays, prompts and mkdirs of the current call:
                \* [k, at], at = the number of tool invocations before it
    params,     \* the call's arguments besides the port, or None
    disk        \* the flash and the host files of a simulated Firehose
                \* backend; None when the tools drive a real device

vars == <<skip_adb, edl_port, exists, mode, ports, op, arg_port, stack, exc,
          ret, log, detected, sleeps, saved, interrupted, enum_ok, effects,
          params, disk>>

-----------------------------------------------------------------------------
(* Bounds of the model.                                                    *)

\* longest port list handed to check_edl_device in SpecScan
MaxPorts == 3
\* detector calls one poll loop makes before the model stops following it
MaxPolls == 3
\* sectors of the longest image written in SpecRoundTrip
MaxImage == 2

-----------------------------------------------------------------------------
(* Python values.  Text that the code searches or trims is a tuple of      *)
(* characters; device paths and names are TLA+ strings.                    *)

NoneV == [k |-> "None"]
PortV(p) == [k |-> "port", p |-> p]
BoolV(b) == [k |-> "bool", b |-> b]
StrV(s) == [k |-> "str", s |-> s]

Lower == <<"a", "b", "c", "d", "e", "f", "g", "h", "i", "j", "k", "l", "m",
           "n", "o", "p", "q", "r", "s", "t", "u", "v", "w", "x", "y", "z">>
Capital == <<"A", "B", "C", "D", "E", "F", "G", "H", "I", "J", "K", "L", "M",
             "N", "O", "P", "Q", "R", "S", "T", "U", "V", "W", "X", "Y", "Z">>

\* str.upper(), one character
UpperChar(c) ==
    IF \E i \in 1..Len(Lower) : Lower[i] = c
    THEN Capital[CHOOSE i \in 1..Len(Lower) : Lower[i] = c]
    ELSE c

\* str.upper()
upper(s) == [i \in 1..Len(s) |-> UpperChar(s[i])]

\* does `pat` start at position i of s
RECURSIVE MatchAt(_, _, _, _)
MatchAt(pat, s, i, j) ==
    IF j > Len(pat) THEN TRUE
    ELSE IF i + j - 1 > Len(s) THEN FALSE
    ELSE IF s[i + j - 1] # pat[j] THEN FALSE
    ELSE MatchAt(pat, s, i, j + 1)

\* Python's `pat in s` on strings: scan the start positions left to right
RECURSIVE InFrom(_, _, _)
InFrom(pat, s, i) ==
    IF i + Len(pat) - 1 > Len(s) THEN FALSE
    ELSE IF MatchAt(pat, s, i, 1) THEN TRUE
    ELSE InFrom(pat, s, i + 1)

In(pat, s) == InFrom(pat, s, 1)

\* truthiness of a str
Truthy(s) == Len(s) > 0

-----------------------------------------------------------------------------
(* Port Scanner: check_edl_device.                                         *)

QUALCOMM == <<"Q", "u", "a", "l", "c", "o", "m", "m">>
S9008 == <<"9", "0", "0", "8">>
VIDPID == <<"V", "I", "D", ":", "P", "I", "D", "=", "0", "5", "C", "6", ":", "9", "0", "0", "8">>

MutIsQualcommNoUpper(port) ==
    \/ Truthy(port.description) /\ In(QUALCOMM, port.description)
                                /\ In(S9008, port.description)
    \/ Truthy(port.hwid) /\ In(VIDPID, port.hwid)

\* device.py:214-215
is_qualcomm_port(port) ==
    \/ Truthy(port.description) /\ In(QUALCOMM, port.description)
                                /\ In(S9008, port.description)
    \/ Truthy(port.hwid) /\ In(VIDPID, upper(port.hwid))

MutScanLast(ps, i) ==
    IF \E n \in i..Len(ps) : is_qualcomm_port(ps[n])
    THEN PortV(ps[CHOOSE n \in i..Len(ps) :
                    /\ is_qualcomm_port(ps[n])
                    /\ \A m \in i..Len(ps) : is_qualcomm_port(ps[m]) => m <= n].device)
    ELSE NoneV

\* device.py:213-225: the for loop from entry i on; None after the last entry
RECURSIVE ScanPorts(_, _)
ScanPorts(ps, i) ==
    IF i > Len(ps) THEN NoneV
    ELSE IF is_qualcomm_port(ps[i]) THEN PortV(ps[i].device)
    ELSE ScanPorts(ps, i + 1)

\* device.py:207-230: comports() raising lands in `except Exception`
check_edl_device(ps, enumerates) ==
    IF enumerates THEN ScanPorts(ps, 1) ELSE NoneV

-----------------------------------------------------------------------------
(* Serial ports the model enumerates.                                      *)

DescQdl == <<"Q", "u", "a", "l", "c", "o", "m", "m", " ", "H", "S", "-", "U", "S", "B", " ", "Q", "D", "L", "o", "a", "d", "e", "r", " ", "9", "0", "0", "8">>
DescLower == <<"q", "u", "a", "l", "c", "o", "m", "m", " ", "9", "0", "0", "8">>
DescSerial == <<"U", "S", "B", " ", "S", "e", "r", "i", "a", "l", " ", "D", "e", "v", "i", "c", "e">>
DescDiag == <<"Q", "u", "a", "l", "c", "o", "m", "m", " ", "H", "S", "-", "U", "S", "B", " ", "D", "i", "a", "g", " ", "9", "0", "1", "D">>
DescOnly9008 == <<"M", "o", "d", "e", "m", " ", "9", "0", "0", "8">>
DescRev == <<"9", "0", "0", "8", " ", "Q", "u", "a", "l", "c", "o", "m", "m">>
HwidEdl == <<"U", "S", "B", " ", "V", "I", "D", ":", "P", "I", "D", "=", "0", "5", "C", "6", ":", "9", "0", "0", "8", " ", "R", "E", "V", "=", "0">>
HwidEdlLower == <<"u", "s", "b", " ", "v", "i", "d", ":", "p", "i", "d", "=", "0", "5", "c", "6", ":", "9", "0", "0", "8", " ", "r", "e", "v", "=", "0">>
HwidEdlMixed == <<"U", "s", "b", " ", "V", "i", "d", ":", "P", "i", "d", "=", "0", "5", "c", "6", ":", "9", "0", "0", "8">>
HwidAdb == <<"U", "S", "B", " ", "V", "I", "D", ":", "P", "I", "D", "=", "1", "8", "D", "1", ":", "4", "E", "E", "0">>
HwidNa == <<"n", "/", "a">>

\* (description, hwid) of the ports a list is built from
PortKinds ==
    { <<DescQdl, HwidEdl>>, <<DescSerial, HwidEdlLower>>, <<DescSerial, HwidEdlMixed>>,
      <<DescQdl, HwidNa>>, <<DescRev, <<>> >>, << <<>>, HwidEdl>>,
      <<DescLower, HwidAdb>>, <<DescSerial, HwidAdb>>, <<DescDiag, HwidNa>>,
      <<DescOnly9008, <<>> >> }

DevNames == <<"COM3", "COM5", "COM7", "COM9", "COM11">>

\* ListPortInfo: the entry at position i of an enumeration is device DevNames[i]
PortInfo(kind, i) == [device |-> DevNames[i], description |-> kind[1], hwid |-> kind[2]]

PortListsOfLen(n) ==
    { [i \in 1..n |-> PortInfo(f[i], i)] : f \in [1..n -> PortKinds] }

PortLists == UNION { PortListsOfLen(n) : n \in 0..MaxPorts }

\* what comports() enumerates while the device is in a mode: an EDL device
\* shows up as a Qualcomm 9008 port next to the host's other ports
Modes == {"Normal", "Bootloader", "EDL"}

PortsInMode(m) ==
    IF m = "EDL"
    THEN { <<PortInfo(<<DescSerial, HwidAdb>>, 1), PortInfo(<<DescQdl, HwidEdl>>, 3)>>,
           <<PortInfo(<<DescSerial, HwidEdlLower>>, 2)>> }
    ELSE { <<PortInfo(<<DescSerial, HwidAdb>>, 1)>> }

-----------------------------------------------------------------------------
(* Process Runner: utils.run_command.                                      *)

ADB_EXE == "ADB_EXE"
FASTBOOT_EXE == "FASTBOOT_EXE"
QSAHARASERVER_EXE == "QSAHARASERVER_EXE"
FH_LOADER_EXE == "FH_LOADER_EXE"
Exes == {ADB_EXE, FASTBOOT_EXE, QSAHARASERVER_EXE, FH_LOADER_EXE}

\* how subprocess.run can end: exit status 0, another exit status, the
\* executable not found, another OSError opening the process, or the
\* operator's Ctrl+C while the runner waits for the tool
ToolResults == {"ok", "nonzero", "notfound", "oserror", "interrupt"}

MutRunCommandIgnoresExit(rc, check) ==
    CASE rc = "ok" -> "None"
      [] rc = "nonzero" -> "None"
      [] rc = "notfound" -> "FileNotFoundError"
      [] rc = "oserror" -> "OSError"
      [] rc = "interrupt" -> "KeyboardInterrupt"

MutRunCommandMergesLaunchErrors(rc, check) ==
    CASE rc = "ok" -> "None"
      [] rc = "nonzero" -> IF check THEN "CalledProcessError" ELSE "None"
      [] rc = "notfound" -> "FileNotFoundError"
      [] rc = "oserror" -> "FileNotFoundError"
      [] rc = "interrupt" -> "KeyboardInterrupt"

\* utils.py:19-42: the exception run_command(command, check=check) leaves
\* with ("None": it returns the CompletedProcess)
run_command(rc, check) ==
    CASE rc = "ok" -> "None"
      [] rc = "nonzero" -> IF check THEN "CalledProcessError" ELSE "None"
      [] rc = "notfound" -> "FileNotFoundError"
      [] rc = "oserror" -> "OSError"
      [] rc = "interrupt" -> "KeyboardInterrupt"

\* `except Exception` catches it (KeyboardInterrupt is a BaseException)
IsException(e) ==
    e \in {"CalledProcessError", "FileNotFoundError", "OSError", "TypeError", "ValueError",
           "KeyError"}

Invocation(exe, args, rc) == [exe |-> exe, args |-> args, rc |-> rc]

IsAdb(inv) == inv.exe = ADB_EXE

\* exit statuses of a tool that ran, and what it printed
ExitCodes == {0, 1, 2, 255}
RunStdout == { <<>>, <<"O", "K", "\n">>, <<"F", "A", "I", "L">>, <<"O", "K", " ", "\n", "\n">> }
RunStderr == { <<>>, <<"e", "r", "r", "o", "r", "\n">> }

\* how subprocess.run ends when the launch went as `launch` ("started": the
\* tool ran and exited with status code)
ResultOf(launch, code) ==
    IF launch # "started" THEN launch ELSE IF code = 0 THEN "ok" ELSE "nonzero"

\* utils.py:19-23, 31: the CompletedProcess; without capture the tool
\* writes to the console itself and stdout and stderr are None
CompletedProcess(code, out, err, capture) ==
    [k |-> "CompletedProcess", returncode |-> code,
     stdout |-> IF capture THEN StrV(out) ELSE NoneV,
     stderr |-> IF capture THEN StrV(err) ELSE NoneV]

\* utils.py:15-42: what run_command(command, check=check, capture=capture)
\* ends with: the exception it raises ("None": it returns) and the value it
\* returns or the exception carries
RunOutcome(launch, code, out, err, check, capture) ==
    LET e == run_command(ResultOf(launch, code), check)
    IN [exc |-> e,
        value |-> IF e = "None" THEN CompletedProcess(code, out, err, capture)
                  ELSE IF e = "CalledProcessError"
                  THEN [CompletedProcess(code, out, err, capture) EXCEPT !.k = e]
                  ELSE NoneV]

\* the arguments and the tool behaviour of one run_command call
RunParams ==
    { [launch |-> l, code |-> c, out |-> o, err |-> x, check |-> ch, capture |-> cap] :
        l \in {"started"}, c \in ExitCodes, o \in RunStdout, x \in RunStderr,
        ch \in BOOLEAN, cap \in BOOLEAN }
    \cup
    { [launch |-> l, code |-> 0, out |-> <<>>, err |-> <<>>, check |-> ch, capture |-> cap] :
        l \in {"notfound", "oserror", "interrupt"}, ch \in BOOLEAN, cap \in BOOLEAN }
IsReboot(inv) == inv.args # <<>> /\ inv.args[1] = "reboot"

-----------------------------------------------------------------------------
(* Text the tools print.                                                   *)

Whitespace == {" ", "\n", "\t", "\r"}

\* str.lstrip() / str.rstrip() / str.strip()
RECURSIVE lstrip(_)
lstrip(s) == IF s # <<>> /\ Head(s) \in Whitespace THEN lstrip(Tail(s)) ELSE s

RECURSIVE rstrip(_)
rstrip(s) ==
    IF s # <<>> /\ s[Len(s)] \in Whitespace THEN rstrip(SubSeq(s, 1, Len(s) - 1)) ELSE s

strip(s) == rstrip(lstrip(s))

\* stdout of `adb shell getprop ro.product.model`
ModelStdout == { <<>>, <<" ", "\n">>, <<"T", "B", "\n">> }

\* stdout of `adb shell getprop ro.boot.slot_suffix`
SlotStdout == { <<>>, <<"_", "a", "\n">>, <<"_", "b">>, <<"c">>, <<"}">>, <<"{", "x", "}">> }

\* stdout and stderr of `fastboot getvar current-slot`
CurrentSlotStdout == { <<>>, <<"c", "u", "r", "r", "e", "n", "t", "-", "s", "l", "o", "t", ":", " ", "b">> }
CurrentSlotStderr ==
    { <<>>, <<"c", "u", "r", "r", "e", "n", "t", "-", "s", "l", "o", "t", ":", " ", "a", "\n">>,
      <<"c", "u", "r", "r", "e", "n", "t", "-", "s", "l", "o", "t", ":", " ", "b", "\n", "o", "k">>,
      <<"c", "u", "r", "r", "e", "n", "t", "-", "s", "l", "o", "t", ":", " ", "c">>,
      <<"c", "u", "r", "r", "e", "n", "t", "-", "s", "l", "o", "t", ":", " ", "a", "b">>,
      <<"c", "u", "r", "r", "e", "n", "t", "-", "s", "l", "o", "t", ":">>,
      <<"(", "b", "o", "o", "t", "l", "o", "a", "d", "e", "r", ")", " ", "c", "u", "r", "r", "e", "n", "t", "-", "s", "l", "o", "t", ":", " ", " ", "a">>,
      <<"c", "u", "r", "r", "e", "n", "t", "-", "s", "l", "o", "t", ":", " ", "c", "}">> }

IsLower(c) == \E i \in 1..Len(Lower) : Lower[i] = c

\* the position after the whitespace that starts at i (\s*)
RECURSIVE SkipSpace(_, _)
SkipSpace(s, i) == IF i <= Len(s) /\ s[i] \in Whitespace THEN SkipSpace(s, i + 1) ELSE i

\* the position after the lower-case letters that start at i ([a-z]+)
RECURSIVE SkipLower(_, _)
SkipLower(s, i) == IF i <= Len(s) /\ IsLower(s[i]) THEN SkipLower(s, i + 1) ELSE i

CURRENT_SLOT == <<"c", "u", "r", "r", "e", "n", "t", "-", "s", "l", "o", "t", ":">>

\* device.py:78-80: re.search(r"current-slot:\s*([a-z]+)", s) from position i
\* on, group(1) of the leftmost match or None
RECURSIVE SearchSlot(_, _)
SearchSlot(s, i) ==
    IF i + Len(CURRENT_SLOT) - 1 > Len(s) THEN NoneV
    ELSE IF MatchAt(CURRENT_SLOT, s, i, 1)
              /\ SkipLower(s, SkipSpace(s, i + Len(CURRENT_SLOT)))
                    > SkipSpace(s, i + Len(CURRENT_SLOT))
    THEN LET b == SkipSpace(s, i + Len(CURRENT_SLOT))
         IN StrV(SubSeq(s, b, SkipLower(s, b) - 1))
    ELSE SearchSlot(s, i + 1)

\* str.splitlines()[0]: the text before the first line break
RECURSIVE FirstLine(_)
FirstLine(s) ==
    IF s = <<>> \/ Head(s) \in {"\n", "\r"} THEN <<>>
    ELSE <<Head(s)>> \o FirstLine(Tail(s))

\* the position of the first "}" from i on, 0 when there is none
RECURSIVE Closing(_, _)
Closing(s, i) ==
    IF i > Len(s) THEN 0 ELSE IF s[i] = "}" THEN i ELSE Closing(s, i + 1)

\* str.format(name=...) applied to a text, from position i on: the exception
\* it raises, "None" when it formats.  "{{" and "}}" are escapes, "{field}"
\* is looked up (only `name` is there to be found), a brace on its own is a
\* ValueError.
RECURSIVE format(_, _, _)
format(s, name, i) ==
    IF i > Len(s) THEN "None"
    ELSE IF s[i] = "{"
    THEN IF i < Len(s) /\ s[i + 1] = "{" THEN format(s, name, i + 2)
         ELSE IF Closing(s, i + 1) = 0 THEN "ValueError"
         ELSE IF SubSeq(s, i + 1, Closing(s, i + 1) - 1) = name
         THEN format(s, name, Closing(s, i + 1) + 1)
         ELSE "KeyError"
    ELSE IF s[i] = "}"
    THEN IF i < Len(s) /\ s[i + 1] = "}" THEN format(s, name, i + 2)
         ELSE "ValueError"
    ELSE format(s, name, i + 1)

\* The exception a slot query leaves with after it printed its warning
\* about the text `shown` (device.py:63, 86) inside its try: the warning is
\* an f-string that already holds `shown`, and .format(name=...) is applied
\* to it again.  A KeyError is caught (67, 88) and reported; a ValueError is
\* caught too, but its message quotes the brace, so the .format of the
\* report (68, 89) raises ValueError inside the handler.
warn(shown, name) == IF format(shown, name, 1) = "ValueError" THEN "ValueError" ELSE "None"

SUFFIX == <<"s", "u", "f", "f", "i", "x">>
SNIPPET == <<"s", "n", "i", "p", "p", "e", "t">>
OUTPUT == <<"o", "u", "t", "p", "u", "t">>

\* stdout of `fastboot devices`: a line per device in Bootloader mode
FastbootDevicesStdout(m) ==
    IF m = "Bootloader"
    THEN { <<"S", "N", "1", "\t", "f", "a", "s", "t", "b", "o", "o", "t", "\n">>,
           <<"S", "}", "1", "\t", "f", "a", "s", "t", "b", "o", "o", "t", "\n">>,
           <<"{", "x", "}", "\t", "f", "a", "s", "t", "b", "o", "o", "t", "\n">> }
    ELSE { <<>>, <<"\n">> }

\* stdout and stderr of `fastboot getvar all`
GetvarStdout == { <<>>, <<"o">> }
GetvarStderr == { <<>>, <<"(", "b", ")", " ", "v", ":", "1", "\n">> }

-----------------------------------------------------------------------------
(* The call stack.                                                         *)

Frame(fn, pc) == [fn |-> fn, pc |-> pc]

\* the innermost frame is at fn, pc and no exception is in flight
At(fn, pc) == stack # <<>> /\ Head(stack) = Frame(fn, pc) /\ exc = "None"

\* the running function moves on to pc
Goto(pc) == stack' = <<Frame(Head(stack).fn, pc)>> \o Tail(stack)

\* the running function calls fn and resumes at cont
CallFn(fn, cont) ==
    stack' = <<Frame(fn, "start"), Frame(Head(stack).fn, cont)>> \o Tail(stack)

\* the running function returns v
Return(v) == stack' = Tail(stack) /\ ret' = v /\ exc' = "None"

\* the running function raises e
Raise(e) == stack' = Tail(stack) /\ exc' = e /\ ret' = NoneV

\* the running function ends as run_command ended: it returns v, or lets
\* run_command's exception through
ReturnOrRaise(e, v) == IF e = "None" THEN Return(v) ELSE Raise(e)

\* the tool invocations of the call, the operator's Ctrl+C and the call's
\* other effects
io == <<log, interrupted, effects>>

Run(exe, args, rc) ==
    /\ log' = Append(log, Invocation(exe, args, rc))
    /\ interrupted' = (interrupted \/ rc = "interrupt")
    /\ UNCHANGED effects

\* utils.py:20-31 with capture=True: the process that ran to its end leaves
\* a CompletedProcess holding what it wrote to stdout and stderr
Completed(exe, args, rc, out, err) ==
    [exe |-> exe, args |-> args, rc |-> rc, stdout |-> out, stderr |-> err]

RunCaptured(exe, args, rc, out, err) ==
    /\ log' = Append(log, IF rc \in {"ok", "nonzero"}
                          THEN Completed(exe, args, rc, out, err)
                          ELSE Invocation(exe, args, rc))
    /\ interrupted' = (interrupted \/ rc = "interrupt")
    /\ UNCHANGED effects

\* a sleep of a poll loop that the operator may interrupt
Blocking(interrupt) ==
    interrupted' = (interrupted \/ interrupt) /\ UNCHANGED <<log, effects>>

\* a settle delay or a prompt that the operator may interrupt
Effect(kind, interrupt) ==
    /\ interrupted' = (interrupted \/ interrupt)
    /\ effects' = Append(effects, [k |-> kind, at |-> Len(log)])
    /\ UNCHANGED log

\* a detector result that ends a wait
Present(v) == v # NoneV /\ v # BoolV(FALSE)

TopLevelOps ==
    { "wait_for_adb", "get_device_model", "get_active_slot_suffix",
      "reboot_to_edl", "reboot_to_bootloader", "check_fastboot_device",
      "wait_for_fastboot", "fastboot_reboot_system", "get_fastboot_vars",
      "check_edl_device", "wait_for_edl", "setup_edl_connection",
      "load_firehose_programmer", "fh_loader_reset", "edl_rawprogram",
      "get_active_slot_suffix_from_fastboot", "fh_loader_read_part",
      "fh_loader_write_part" }

\* the port a caller passes to the Sahara and Firehose stages
PortArgs == {"COM5", "COM7"}

\* a file of the host: the directory it lies in and its name
DumpFile == [dir |-> "out", name |-> "dump.img"]
ImageFile == [dir |-> "image", name |-> "boot.img"]

\* the arguments a caller passes to fh_loader_read_part (output_filename,
\* lun, start_sector, num_sectors) and to fh_loader_write_part (image_path,
\* lun, start_sector); the other operations take none besides the port
ReadParams(file, lun, start_sector, num_sectors) ==
    [file |-> file, lun |-> lun, start_sector |-> start_sector, num_sectors |-> num_sectors]

WriteParams(file, lun, start_sector) ==
    [file |-> file, lun |-> lun, start_sector |-> start_sector]

\* the descriptor files of a flash plan
XmlFile(name) == [dir |-> "image", name |-> name]
RawXmlLists ==
    { <<XmlFile("rawprogram0.xml")>>,
      <<XmlFile("rawprogram0.xml"), XmlFile("rawprogram1.xml")>>,
      <<XmlFile("rawprogram1.xml"), XmlFile("rawprogram0.xml")>> }
PatchXmlLists ==
    { <<>>, <<XmlFile("patch0.xml"), XmlFile("patch1.xml")>> }

ParamsOf(fn) ==
    CASE fn = "fh_loader_read_part" -> {ReadParams(DumpFile, "0", "0", "1")}
      [] fn = "fh_loader_write_part" -> {WriteParams(ImageFile, "0", "0")}
      [] fn = "check_fastboot_device" -> {[silent |-> TRUE], [silent |-> FALSE]}
      [] fn = "edl_rawprogram" ->
            { [raw_xmls |-> r, patch_xmls |-> q] : r \in RawXmlLists, q \in PatchXmlLists }
      [] OTHER -> {NoneV}

\* none of the object's fields and nothing of the environment changes
Frame_ == <<skip_adb, edl_port, exists, mode, ports, op, arg_port, params, disk>>

\* the same, and no serial enumeration takes place
Fixed == <<Frame_, enum_ok>>

-----------------------------------------------------------------------------
(* Construction, the caller and the environment.                           *)

\* device.py:14-17, DeviceController(skip_adb): no handle, nothing running
Init ==
    /\ skip_adb \in BOOLEAN
    /\ edl_port = NoneV
    /\ exists \in [{QSAHARASERVER_EXE, FH_LOADER_EXE} -> BOOLEAN]
    /\ mode \in Modes
    /\ ports \in PortsInMode(mode)
    /\ op = "None"
    /\ arg_port = "None"
    /\ stack = <<>>
    /\ exc = "None"
    /\ ret = NoneV
    /\ log = <<>>
    /\ detected = <<>>
    /\ sleeps = 0
    /\ saved = NoneV
    /\ interrupted = FALSE
    /\ enum_ok = TRUE
    /\ effects = <<>>
    /\ params = NoneV
    /\ disk = NoneV

\* the caller calls a method of the controller once the previous call ended
Call ==
    /\ stack = <<>>
    /\ \E fn \in TopLevelOps :
          /\ op' = fn
          /\ stack' = <<Frame(fn, "start")>>
          /\ arg_port' \in IF fn \in {"load_firehose_programmer", "fh_loader_reset",
                                      "edl_rawprogram", "fh_loader_read_part",
                                      "fh_loader_write_part"}
                           THEN PortArgs ELSE {"None"}
          /\ params' \in ParamsOf(fn)
    /\ exc' = "None" /\ ret' = NoneV /\ log' = <<>>
    /\ detected' = <<>> /\ sleeps' = 0 /\ saved' = NoneV
    /\ interrupted' = FALSE /\ enum_ok' = TRUE /\ effects' = <<>>
    /\ UNCHANGED <<skip_adb, edl_port, exists, mode, ports, disk>>

\* the device reboots, is plugged or unplugged, or the operator switches its
\* mode by hand: the enumerated ports follow the mode
EnvChange ==
    /\ \E m \in Modes : \E ps \in PortsInMode(m) :
          /\ <<m, ps>> # <<mode, ports>>
          /\ mode' = m
          /\ ports' = ps
    /\ UNCHANGED <<skip_adb, edl_port, exists, op, arg_port, stack, exc, ret, io,
                   detected, sleeps, saved, enum_ok, params, disk>>

\* an exception leaves a function that has no handler for it
Propagate ==
    /\ stack # <<>>
    /\ exc # "None"
    /\ stack' = Tail(stack)
    /\ UNCHANGED <<Fixed, exc, ret, io, detected, sleeps, saved>>

-----------------------------------------------------------------------------
(* ADB side of the controller.                                             *)

\* device.py:19-32
WaitForAdb ==
    /\ At("wait_for_adb", "start")
    /\ IF skip_adb
       THEN Return(NoneV) /\ UNCHANGED io
       ELSE \E rc \in ToolResults :
               /\ Run(ADB_EXE, <<"wait-for-device">>, rc)
               /\ ReturnOrRaise(run_command(rc, TRUE), NoneV)
    /\ UNCHANGED <<Fixed, detected, sleeps, saved>>

\* device.py:34-35
GetDeviceModel_Start ==
    /\ At("get_device_model", "start")
    /\ CallFn("wait_for_adb", "L36")
    /\ UNCHANGED <<Fixed, exc, ret, io, detected, sleeps, saved>>

\* device.py:36-51
GetDeviceModel_L36 ==
    /\ At("get_device_model", "L36")
    /\ IF skip_adb
       THEN Return(NoneV) /\ UNCHANGED io
       ELSE \E rc \in ToolResults : \E out \in ModelStdout :
               LET e == run_command(rc, TRUE)
                   model == strip(out)
               IN /\ Run(ADB_EXE, <<"shell", "getprop", "ro.product.model">>, rc)
                  /\ IF e = "None"
                     THEN Return(IF Truthy(model) THEN StrV(model) ELSE NoneV)
                     ELSE IF IsException(e) THEN Return(NoneV) ELSE Raise(e)
    /\ UNCHANGED <<Fixed, detected, sleeps, saved>>

\* device.py:53-54
GetActiveSlotSuffix_Start ==
    /\ At("get_active_slot_suffix", "start")
    /\ CallFn("wait_for_adb", "L55")
    /\ UNCHANGED <<Fixed, exc, ret, io, detected, sleeps, saved>>

\* device.py:55-70: `saved` keeps result.stdout
GetActiveSlotSuffix_L55 ==
    /\ At("get_active_slot_suffix", "L55")
    /\ IF skip_adb
       THEN Return(NoneV) /\ UNCHANGED <<io, saved>>
       ELSE \E rc \in ToolResults : \E out \in SlotStdout :
               LET e == run_command(rc, TRUE)
                   suffix == strip(out)
               IN /\ Run(ADB_EXE, <<"shell", "getprop", "ro.boot.slot_suffix">>, rc)
                  /\ IF e = "None"
                     THEN /\ saved' = StrV(out)
                          /\ IF suffix \in {<<"_", "a">>, <<"_", "b">>}
                             THEN Return(StrV(suffix))
                             ELSE ReturnOrRaise(warn(suffix, SUFFIX), NoneV)
                     ELSE /\ UNCHANGED saved
                          /\ IF IsException(e) THEN Return(NoneV) ELSE Raise(e)
    /\ UNCHANGED <<Fixed, detected, sleeps>>

\* device.py:81-84: the suffix of a slot the regular expression found
slot_suffix(slot) ==
    IF slot \in {StrV(<<"a">>), StrV(<<"b">>)} THEN StrV(<<"_">> \o slot.s) ELSE NoneV

\* device.py:72-90: `saved` keeps `output`
GetActiveSlotSuffixFromFastboot ==
    /\ At("get_active_slot_suffix_from_fastboot", "start")
    /\ \E rc \in ToolResults : \E out \in CurrentSlotStdout : \E err \in CurrentSlotStderr :
          LET e == run_command(rc, FALSE)
              output == strip(err) \o <<"\n">> \o strip(out)
              suffix == slot_suffix(SearchSlot(output, 1))
          IN /\ Run(FASTBOOT_EXE, <<"getvar", "current-slot">>, rc)
             /\ IF e = "None"
                THEN /\ saved' = StrV(output)
                     /\ IF suffix # NoneV
                        THEN Return(suffix)
                        ELSE ReturnOrRaise(warn(FirstLine(output), SNIPPET), NoneV)
                ELSE /\ UNCHANGED saved
                     /\ IF IsException(e) THEN Return(NoneV) ELSE Raise(e)
    /\ UNCHANGED <<Fixed, detected, sleeps>>

\* device.py:92-93
RebootToEdl_Start ==
    /\ At("reboot_to_edl", "start")
    /\ CallFn("wait_for_adb", "L94")
    /\ UNCHANGED <<Fixed, exc, ret, io, detected, sleeps, saved>>

MutRebootToEdlAssumesArrival ==
    /\ At("reboot_to_edl", "L94")
    /\ IF skip_adb
       THEN Return(NoneV) /\ UNCHANGED <<io, edl_port>>
       ELSE \E rc \in ToolResults :
               LET e == run_command(rc, TRUE)
               IN /\ Run(ADB_EXE, <<"reboot", "edl">>, rc)
                  /\ IF e = "None" \/ IsException(e) THEN Return(NoneV) ELSE Raise(e)
                  /\ edl_port' = IF e = "None" THEN PortV("COM7") ELSE edl_port
    /\ UNCHANGED <<skip_adb, exists, mode, ports, op, arg_port, detected, sleeps, saved,
                   enum_ok, params, disk>>

\* device.py:94-103: a failed reboot command is reported and swallowed
RebootToEdl_L94 ==
    /\ At("reboot_to_edl", "L94")
    /\ IF skip_adb
       THEN Return(NoneV) /\ UNCHANGED io
       ELSE \E rc \in ToolResults :
               LET e == run_command(rc, TRUE)
               IN /\ Run(ADB_EXE, <<"reboot", "edl">>, rc)
                  /\ IF e = "None" \/ IsException(e) THEN Return(NoneV) ELSE Raise(e)
    /\ UNCHANGED <<Fixed, detected, sleeps, saved>>

\* device.py:105-106
RebootToBootloader_Start ==
    /\ At("reboot_to_bootloader", "start")
    /\ CallFn("wait_for_adb", "L107")
    /\ UNCHANGED <<Fixed, exc, ret, io, detected, sleeps, saved>>

\* device.py:107-116: a failed reboot command is reported and raised again
RebootToBootloader_L107 ==
    /\ At("reboot_to_bootloader", "L107")
    /\ IF skip_adb
       THEN Return(NoneV) /\ UNCHANGED io
       ELSE \E rc \in ToolResults :
               /\ Run(ADB_EXE, <<"reboot", "bootloader">>, rc)
               /\ ReturnOrRaise(run_command(rc, TRUE), NoneV)
    /\ UNCHANGED <<Fixed, detected, sleeps, saved>>

-----------------------------------------------------------------------------
(* Fastboot side of the controller.                                        *)

\* device.py:121-138, what check_fastboot_device returns when `fastboot
\* devices` ended as rc with stdout `out`
check_fastboot_device(rc, out) ==
    IF run_command(rc, FALSE) = "None" THEN BoolV(Truthy(strip(out))) ELSE BoolV(FALSE)

\* device.py:135: what `except Exception` lets through
Uncaught(e) == IF IsException(e) THEN "None" ELSE e

\* device.py:118-138, called as check_fastboot_device(silent=params.silent);
\* `saved` keeps result.stdout.  Unless silent, the message about a device
\* that was found is an f-string that already holds the output and
\* .format(output=...) is applied to it again (127), inside the try.
CheckFastbootDevice ==
    /\ At("check_fastboot_device", "start")
    /\ \E rc \in ToolResults : \E out \in FastbootDevicesStdout(mode) :
          LET e == run_command(rc, FALSE)
              output == strip(out)
          IN /\ Run(FASTBOOT_EXE, <<"devices">>, rc)
             /\ saved' = IF e = "None" THEN StrV(out) ELSE NoneV
             /\ IF e # "None"
                THEN ReturnOrRaise(Uncaught(e), BoolV(FALSE))
                ELSE IF params.silent \/ ~Truthy(output) \/ format(output, OUTPUT, 1) = "None"
                THEN Return(check_fastboot_device(rc, out))
                ELSE ReturnOrRaise(warn(output, OUTPUT), BoolV(FALSE))
    /\ UNCHANGED <<Fixed, detected, sleeps>>

\* device.py:140-144: the first check
WaitForFastboot_Start ==
    /\ At("wait_for_fastboot", "start")
    /\ \E rc \in ToolResults : \E out \in FastbootDevicesStdout(mode) :
          LET e == Uncaught(run_command(rc, FALSE))
              found == check_fastboot_device(rc, out)
          IN /\ Run(FASTBOOT_EXE, <<"devices">>, rc)
             /\ IF e # "None" THEN Raise(e) /\ UNCHANGED detected
                ELSE /\ detected' = Append(detected, found)
                     /\ IF Present(found)
                        THEN Return(BoolV(TRUE))
                        ELSE Goto("loop") /\ UNCHANGED <<exc, ret>>
    /\ UNCHANGED <<Fixed, sleeps, saved>>

\* device.py:146: the loop's condition
WaitForFastboot_Loop ==
    /\ At("wait_for_fastboot", "loop")
    /\ Len(detected) < MaxPolls
    /\ \E rc \in ToolResults : \E out \in FastbootDevicesStdout(mode) :
          LET e == Uncaught(run_command(rc, FALSE))
              found == check_fastboot_device(rc, out)
          IN /\ Run(FASTBOOT_EXE, <<"devices">>, rc)
             /\ IF e # "None" THEN Raise(e) /\ UNCHANGED detected
                ELSE /\ detected' = Append(detected, found)
                     /\ IF Present(found)
                        THEN Return(BoolV(TRUE))
                        ELSE Goto("sleep") /\ UNCHANGED <<exc, ret>>
    /\ UNCHANGED <<Fixed, sleeps, saved>>

\* device.py:147-152: the loop's body; Ctrl+C during the sleep is raised again
WaitForFastboot_Sleep ==
    /\ At("wait_for_fastboot", "sleep")
    /\ \E interrupt \in BOOLEAN :
          /\ Blocking(interrupt)
          /\ IF interrupt
             THEN Raise("KeyboardInterrupt") /\ UNCHANGED sleeps
             ELSE Goto("loop") /\ sleeps' = sleeps + 1 /\ UNCHANGED <<exc, ret>>
    /\ UNCHANGED <<Fixed, detected, saved>>

\* device.py:156-162: a failed reboot command is reported and swallowed
FastbootRebootSystem ==
    /\ At("fastboot_reboot_system", "start")
    /\ \E rc \in ToolResults :
          /\ Run(FASTBOOT_EXE, <<"reboot">>, rc)
          /\ ReturnOrRaise(Uncaught(run_command(rc, TRUE)), NoneV)
    /\ UNCHANGED <<Fixed, detected, sleeps, saved>>

\* device.py:164-179: the reboot request, or the operator's manual switch
GetFastbootVars_Start ==
    /\ At("get_fastboot_vars", "start")
    /\ IF ~skip_adb
       THEN CallFn("reboot_to_bootloader", "L170") /\ UNCHANGED <<exc, ret, io>>
       ELSE \E key \in {"enter", "eof", "interrupt"} :
               /\ Effect("prompt", key = "interrupt")
               /\ IF key = "interrupt"
                  THEN Raise("KeyboardInterrupt")
                  ELSE Goto("L181") /\ UNCHANGED <<exc, ret>>
    /\ UNCHANGED <<Fixed, detected, sleeps, saved>>

\* device.py:170-171: the settle delay
GetFastbootVars_L170 ==
    /\ At("get_fastboot_vars", "L170")
    /\ \E interrupt \in BOOLEAN :
          /\ Effect("delay", interrupt)
          /\ IF interrupt
             THEN Raise("KeyboardInterrupt")
             ELSE Goto("L181") /\ UNCHANGED <<exc, ret>>
    /\ UNCHANGED <<Fixed, detected, sleeps, saved>>

MutGetFastbootVarsSkipsPoll ==
    /\ At("get_fastboot_vars", "L181")
    /\ Goto("L183")
    /\ UNCHANGED <<Fixed, exc, ret, io, detected, sleeps, saved>>

\* device.py:181
GetFastbootVars_L181 ==
    /\ At("get_fastboot_vars", "L181")
    /\ CallFn("wait_for_fastboot", "L183")
    /\ UNCHANGED <<Fixed, exc, ret, io, detected, sleeps, saved>>

MutGetFastbootVarsAlwaysReboots ==
    /\ At("get_fastboot_vars", "L183")
    /\ \E rc \in ToolResults : \E out \in GetvarStdout : \E err \in GetvarStderr :
          LET e == run_command(rc, FALSE)
              output == StrV(out \o <<"\n">> \o err)
          IN /\ RunCaptured(FASTBOOT_EXE, <<"getvar", "all">>, rc, out, err)
             /\ IF e = "None"
                THEN /\ saved' = output
                     /\ CallFn("fastboot_reboot_system", "L195") /\ UNCHANGED <<exc, ret>>
                ELSE IF IsException(e)
                THEN /\ saved' = [k |-> "exc", e |-> e]
                     /\ CallFn("fastboot_reboot_system", "L205") /\ UNCHANGED <<exc, ret>>
                ELSE Raise(e) /\ UNCHANGED saved
    /\ UNCHANGED <<Fixed, detected, sleeps>>

MutGetFastbootVarsChecksExit ==
    /\ At("get_fastboot_vars", "L183")
    /\ \E rc \in ToolResults : \E out \in GetvarStdout : \E err \in GetvarStderr :
          LET e == run_command(rc, TRUE)
              output == StrV(out \o <<"\n">> \o err)
          IN /\ RunCaptured(FASTBOOT_EXE, <<"getvar", "all">>, rc, out, err)
             /\ IF e = "None"
                THEN /\ saved' = output
                     /\ IF ~skip_adb
                        THEN CallFn("fastboot_reboot_system", "L195") /\ UNCHANGED <<exc, ret>>
                        ELSE Return(output)
                ELSE IF IsException(e)
                THEN /\ saved' = [k |-> "exc", e |-> e]
                     /\ IF ~skip_adb
                        THEN CallFn("fastboot_reboot_system", "L205") /\ UNCHANGED <<exc, ret>>
                        ELSE Raise(e)
                ELSE Raise(e) /\ UNCHANGED saved
    /\ UNCHANGED <<Fixed, detected, sleeps>>

\* device.py:183-205: `getvar all`, then the reboot back or the failure path
GetFastbootVars_L183 ==
    /\ At("get_fastboot_vars", "L183")
    /\ \E rc \in ToolResults : \E out \in GetvarStdout : \E err \in GetvarStderr :
          LET e == run_command(rc, FALSE)
              output == StrV(out \o <<"\n">> \o err)
          IN /\ RunCaptured(FASTBOOT_EXE, <<"getvar", "all">>, rc, out, err)
             /\ IF e = "None"
                THEN /\ saved' = output
                     /\ IF ~skip_adb
                        THEN CallFn("fastboot_reboot_system", "L195") /\ UNCHANGED <<exc, ret>>
                        ELSE Return(output)
                ELSE IF IsException(e)
                THEN /\ saved' = [k |-> "exc", e |-> e]
                     /\ IF ~skip_adb
                        THEN CallFn("fastboot_reboot_system", "L205") /\ UNCHANGED <<exc, ret>>
                        ELSE Raise(e)
                ELSE Raise(e) /\ UNCHANGED saved
    /\ UNCHANGED <<Fixed, detected, sleeps>>

\* device.py:195
GetFastbootVars_L195 ==
    /\ At("get_fastboot_vars", "L195")
    /\ Return(saved)
    /\ UNCHANGED <<Fixed, io, detected, sleeps, saved>>

MutGetFastbootVarsRaisesCleanupFailure ==
    /\ At("get_fastboot_vars", "L205")
    /\ Raise(IF log[Len(log)].rc = "ok" THEN saved.e ELSE run_command(log[Len(log)].rc, TRUE))
    /\ UNCHANGED <<Fixed, io, detected, sleeps, saved>>

\* device.py:205: the retrieval failure is raised again after the cleanup
GetFastbootVars_L205 ==
    /\ At("get_fastboot_vars", "L205")
    /\ Raise(saved.e)
    /\ UNCHANGED <<Fixed, io, detected, sleeps, saved>>

-----------------------------------------------------------------------------
(* EDL side of the controller.                                             *)

\* device.py:207-230
CheckEdlDevice ==
    /\ At("check_edl_device", "start")
    /\ \E enumerates \in BOOLEAN :
          /\ enum_ok' = enumerates
          /\ Return(check_edl_device(ports, enumerates))
    /\ UNCHANGED <<Frame_, io, detected, sleeps, saved>>

MutWaitForEdlStartSleeps ==
    /\ At("wait_for_edl", "start")
    /\ \E enumerates \in BOOLEAN :
          LET port_name == check_edl_device(ports, enumerates)
          IN /\ enum_ok' = enumerates
             /\ detected' = Append(detected, port_name)
             /\ IF Present(port_name)
                THEN Return(port_name)
                ELSE Goto("sleep") /\ UNCHANGED <<exc, ret>>
    /\ UNCHANGED <<Frame_, io, sleeps, saved>>

\* device.py:232-236: the first check
WaitForEdl_Start ==
    /\ At("wait_for_edl", "start")
    /\ \E enumerates \in BOOLEAN :
          LET port_name == check_edl_device(ports, enumerates)
          IN /\ enum_ok' = enumerates
             /\ detected' = Append(detected, port_name)
             /\ IF Present(port_name)
                THEN Return(port_name)
                ELSE Goto("loop") /\ UNCHANGED <<exc, ret>>
    /\ UNCHANGED <<Frame_, io, sleeps, saved>>

MutWaitForEdlLoopChecksTwice ==
    /\ At("wait_for_edl", "loop")
    /\ Len(detected) < MaxPolls
    /\ \E enumerates \in BOOLEAN : \E again \in BOOLEAN :
          LET port_name == check_edl_device(ports, enumerates)
              second == check_edl_device(ports, again)
          IN /\ enum_ok' = again
             /\ IF Present(port_name)
                THEN detected' = detected \o <<port_name, second>> /\ Return(second)
                ELSE /\ detected' = Append(detected, port_name)
                     /\ Goto("sleep") /\ UNCHANGED <<exc, ret>>
    /\ UNCHANGED <<Frame_, io, sleeps, saved>>

\* device.py:238, 245-246: the loop's condition
WaitForEdl_Loop ==
    /\ At("wait_for_edl", "loop")
    /\ Len(detected) < MaxPolls
    /\ \E enumerates \in BOOLEAN :
          LET port_name == check_edl_device(ports, enumerates)
          IN /\ enum_ok' = enumerates
             /\ detected' = Append(detected, port_name)
             /\ IF Present(port_name)
                THEN Return(port_name)
                ELSE Goto("sleep") /\ UNCHANGED <<exc, ret>>
    /\ UNCHANGED <<Frame_, io, sleeps, saved>>

MutWaitForEdlSleepSwallows ==
    /\ At("wait_for_edl", "sleep")
    /\ \E interrupt \in BOOLEAN :
          /\ Blocking(interrupt)
          /\ Goto("loop") /\ sleeps' = sleeps + 1 /\ UNCHANGED <<exc, ret>>
    /\ UNCHANGED <<Fixed, detected, saved>>

\* device.py:239-244: the loop's body; Ctrl+C during the sleep is raised again
WaitForEdl_Sleep ==
    /\ At("wait_for_edl", "sleep")
    /\ \E interrupt \in BOOLEAN :
          /\ Blocking(interrupt)
          /\ IF interrupt
             THEN Raise("KeyboardInterrupt") /\ UNCHANGED sleeps
             ELSE Goto("loop") /\ sleeps' = sleeps + 1 /\ UNCHANGED <<exc, ret>>
    /\ UNCHANGED <<Fixed, detected, saved>>

MutSetupAlwaysReboots ==
    /\ At("setup_edl_connection", "start")
    /\ \E enumerates \in BOOLEAN :
          LET found == check_edl_device(ports, enumerates)
          IN /\ enum_ok' = enumerates
             /\ detected' = Append(detected, found)
             /\ IF ~skip_adb THEN CallFn("wait_for_adb", "L255") ELSE Goto("L255")
    /\ UNCHANGED <<Frame_, exc, ret, io, sleeps, saved>>

\* device.py:248-253: skip the reboot when an EDL port is enumerated already
SetupEdlConnection_Start ==
    /\ At("setup_edl_connection", "start")
    /\ \E enumerates \in BOOLEAN :
          LET found == check_edl_device(ports, enumerates)
          IN /\ enum_ok' = enumerates
             /\ detected' = Append(detected, found)
             /\ IF Present(found) THEN Goto("L262")
                ELSE IF ~skip_adb THEN CallFn("wait_for_adb", "L255")
                ELSE Goto("L255")
    /\ UNCHANGED <<Frame_, exc, ret, io, sleeps, saved>>

\* device.py:255-256
SetupEdlConnection_L255 ==
    /\ At("setup_edl_connection", "L255")
    /\ CallFn("reboot_to_edl", "L258")
    /\ UNCHANGED <<Fixed, exc, ret, io, detected, sleeps, saved>>

\* device.py:258-260: the settle delay
SetupEdlConnection_L258 ==
    /\ At("setup_edl_connection", "L258")
    /\ IF ~skip_adb
       THEN \E interrupt \in BOOLEAN :
               /\ Effect("delay", interrupt)
               /\ IF interrupt
                  THEN Raise("KeyboardInterrupt")
                  ELSE Goto("L262") /\ UNCHANGED <<exc, ret>>
       ELSE Goto("L262") /\ UNCHANGED <<exc, ret, io>>
    /\ UNCHANGED <<Fixed, detected, sleeps, saved>>

\* device.py:262-270: utils.wait_for_files(directory, required_files,
\* prompt_message) (utils.py:58) takes no `lang`: the call at device.py:270
\* raises TypeError before wait_for_files runs, so lines 271-276 (the EDL
\* poll and `self.edl_port = port`) are never reached
SetupEdlConnection_L262 ==
    /\ At("setup_edl_connection", "L262")
    /\ Raise("TypeError")
    /\ UNCHANGED <<Fixed, io, detected, sleeps, saved>>

-----------------------------------------------------------------------------
(* Sahara and Firehose stages.                                             *)

SaharaArgs(port) == <<"-p", port, "-s", "13", "loader_path">>

ResetArgs(port) == <<"--port", port, "--reset", "--noprompt">>

\* device.py:418-419: [p.name for p in xmls]
names(xmls) == [i \in 1..Len(xmls) |-> xmls[i].name]

\* sep.join(strs)
RECURSIVE join(_, _)
join(sep, strs) ==
    IF strs = <<>> THEN ""
    ELSE IF Len(strs) = 1 THEN strs[1]
    ELSE strs[1] \o sep \o join(sep, Tail(strs))

MutRawprogramArgsPatchFirst(port, raw_xmls, patch_xmls) ==
    <<"--port", port, "--search_path",
      "--sendxml=" \o join(",", names(patch_xmls)),
      "--sendxml=" \o join(",", names(raw_xmls)),
      "--setactivepartition=1", "--memoryname", "--showpercentagecomplete",
      "--zlpawarehost=1", "--noprompt">>

\* device.py:418-432: the arguments after the executable
RawprogramArgs(port, raw_xmls, patch_xmls) ==
    <<"--port", port, "--search_path",
      "--sendxml=" \o join(",", names(raw_xmls)),
      "--sendxml=" \o join(",", names(patch_xmls)),
      "--setactivepartition=1", "--memoryname", "--showpercentagecomplete",
      "--zlpawarehost=1", "--noprompt">>

MutLoadFirehoseProgrammerSwallows ==
    /\ At("load_firehose_programmer", "start")
    /\ IF ~exists[QSAHARASERVER_EXE]
       THEN Raise("FileNotFoundError") /\ UNCHANGED io
       ELSE \E rc \in ToolResults :
               LET e == run_command(rc, TRUE)
               IN /\ Run(QSAHARASERVER_EXE, SaharaArgs(arg_port), rc)
                  /\ ReturnOrRaise(IF e = "CalledProcessError" THEN "None" ELSE e, NoneV)
    /\ UNCHANGED <<Fixed, detected, sleeps, saved>>

\* device.py:278-299
LoadFirehoseProgrammer ==
    /\ At("load_firehose_programmer", "start")
    /\ IF ~exists[QSAHARASERVER_EXE]
       THEN Raise("FileNotFoundError") /\ UNCHANGED io
       ELSE \E rc \in ToolResults :
               /\ Run(QSAHARASERVER_EXE, SaharaArgs(arg_port), rc)
               /\ ReturnOrRaise(run_command(rc, TRUE), NoneV)
    /\ UNCHANGED <<Fixed, detected, sleeps, saved>>

\* utils.py:32-42: the failures run_command reports on stderr before it
\* raises them again
Reports(e) == e \in {"FileNotFoundError", "CalledProcessError"}

MutFhLoaderResetSwallows ==
    /\ At("fh_loader_reset", "start")
    /\ IF ~exists[FH_LOADER_EXE]
       THEN Raise("FileNotFoundError") /\ UNCHANGED io
       ELSE \E rc \in ToolResults :
               LET e == run_command(rc, TRUE)
               IN /\ log' = Append(log, Invocation(FH_LOADER_EXE, ResetArgs(arg_port), rc))
                  /\ interrupted' = (interrupted \/ rc = "interrupt")
                  /\ effects' = IF Reports(e)
                                THEN Append(effects, [k |-> "report", at |-> Len(log) + 1])
                                ELSE effects
                  /\ ReturnOrRaise(Uncaught(e), NoneV)
    /\ UNCHANGED <<Fixed, detected, sleeps, saved>>

\* device.py:384-397; the runner's report of a failure (utils.py:32-42) is
\* kept in effects with the index of the invocation it is about
FhLoaderReset ==
    /\ At("fh_loader_reset", "start")
    /\ IF ~exists[FH_LOADER_EXE]
       THEN Raise("FileNotFoundError") /\ UNCHANGED io
       ELSE \E rc \in ToolResults :
               LET e == run_command(rc, TRUE)
               IN /\ log' = Append(log, Invocation(FH_LOADER_EXE, ResetArgs(arg_port), rc))
                  /\ interrupted' = (interrupted \/ rc = "interrupt")
                  /\ effects' = IF Reports(e)
                                THEN Append(effects, [k |-> "report", at |-> Len(log) + 1])
                                ELSE effects
                  /\ ReturnOrRaise(e, NoneV)
    /\ UNCHANGED <<Fixed, detected, sleeps, saved>>

\* device.py:339, 378: the exception subprocess.run(cmd_fh, cwd=..., env=env,
\* check=check) leaves with ("None": it returns)
subprocess_run(rc, check) ==
    CASE rc = "ok" -> "None"
      [] rc = "nonzero" -> IF check THEN "CalledProcessError" ELSE "None"
      [] rc = "notfound" -> "FileNotFoundError"
      [] rc = "oserror" -> "OSError"
      [] rc = "interrupt" -> "KeyboardInterrupt"

\* an invocation that runs in the working directory cwd
InvocationIn(exe, args, rc, cwd) == [exe |-> exe, args |-> args, rc |-> rc, cwd |-> cwd]

MutReadPartArgsSwapped(port, dest_filename, lun, start_sector, num_sectors) ==
    <<"--port", port, "--convertprogram2read", "--sendimage", dest_filename,
      "--lun", lun, "--start_sector", num_sectors, "--num_sectors", start_sector,
      "--memoryname", "UFS", "--noprompt", "--zlpawarehost=1">>

\* device.py:322-334: cmd_fh of fh_loader_read_part
ReadPartArgs(port, dest_filename, lun, start_sector, num_sectors) ==
    <<"--port", port, "--convertprogram2read", "--sendimage", dest_filename,
      "--lun", lun, "--start_sector", start_sector, "--num_sectors", num_sectors,
      "--memoryname", "UFS", "--noprompt", "--zlpawarehost=1">>

\* device.py:359-370: cmd_fh of fh_loader_write_part
WritePartArgs(port, filename, lun, start_sector) ==
    <<"--port", port, "--sendimage", filename, "--lun", lun,
      "--start_sector", start_sector, "--memoryname", "UFS", "--noprompt",
      "--zlpawarehost=1">>

\* the value of option key on a command line
Opt(args, key) == args[(CHOOSE i \in 1..Len(args) : args[i] = key) + 1]

HasOpt(args, key) == \E i \in 1..Len(args) : args[i] = key

Digits == <<"0", "1", "2", "3", "4", "5", "6", "7", "8", "9">>

\* the number a one-digit decimal numeral stands for
int(d) == (CHOOSE i \in 1..Len(Digits) : Digits[i] = d) - 1

\* The simulated Firehose backend: what a Firehose invocation that exits
\* with status 0 does to the flash and to the files of the host.  Without
\* --convertprogram2read the sectors of the file named by --sendimage (in the
\* working directory) go to the LUN from start_sector on; with it num_sectors
\* sectors of the LUN from start_sector on go to that file.
fh_loader(d, inv) ==
    IF d = NoneV \/ inv.rc # "ok" THEN d
    ELSE LET lun == Opt(inv.args, "--lun")
             start == int(Opt(inv.args, "--start_sector"))
             file == [dir |-> inv.cwd, name |-> Opt(inv.args, "--sendimage")]
         IN IF HasOpt(inv.args, "--convertprogram2read")
            THEN [d EXCEPT !.files[file] =
                     [i \in 1..int(Opt(inv.args, "--num_sectors")) |->
                         d.flash[lun][start + i - 1]]]
            ELSE [d EXCEPT !.flash[lun] =
                     [n \in DOMAIN @ |->
                         IF n \in start..(start + Len(d.files[file]) - 1)
                         THEN d.files[file][n - start + 1]
                         ELSE @[n]]]

\* what a partition call leaves alone besides the disk
Session_ == <<skip_adb, edl_port, exists, mode, ports, op, arg_port, params, enum_ok>>

MutFhLoaderReadPartMkdirFirst ==
    /\ At("fh_loader_read_part", "start")
    /\ \E made \in BOOLEAN :
          IF ~made
          THEN Raise("OSError") /\ UNCHANGED <<io, disk>>
          ELSE IF ~exists[FH_LOADER_EXE]
          THEN /\ Raise("FileNotFoundError")
               /\ effects' = Append(effects, [k |-> "mkdir", at |-> Len(log)])
               /\ UNCHANGED <<log, interrupted, disk>>
          ELSE \E rc \in ToolResults :
                  LET inv == InvocationIn(FH_LOADER_EXE,
                                 ReadPartArgs(arg_port, params.file.name, params.lun,
                                              params.start_sector, params.num_sectors),
                                 rc, params.file.dir)
                  IN /\ effects' = Append(effects, [k |-> "mkdir", at |-> Len(log)])
                     /\ log' = Append(log, inv)
                     /\ interrupted' = (interrupted \/ rc = "interrupt")
                     /\ disk' = fh_loader(disk, inv)
                     /\ ReturnOrRaise(subprocess_run(rc, TRUE), NoneV)
    /\ UNCHANGED <<Session_, detected, sleeps, saved>>

\* device.py:301-342: the executable is checked, the output directory is
\* made (mkdir can fail with an OSError), then the one Firehose invocation
\* runs in the output directory
FhLoaderReadPart ==
    /\ At("fh_loader_read_part", "start")
    /\ IF ~exists[FH_LOADER_EXE]
       THEN Raise("FileNotFoundError") /\ UNCHANGED <<io, disk>>
       ELSE \E made \in BOOLEAN :
               IF ~made
               THEN Raise("OSError") /\ UNCHANGED <<io, disk>>
               ELSE \E rc \in ToolResults :
                       LET inv == InvocationIn(FH_LOADER_EXE,
                                      ReadPartArgs(arg_port, params.file.name, params.lun,
                                                   params.start_sector, params.num_sectors),
                                      rc, params.file.dir)
                       IN /\ effects' = Append(effects, [k |-> "mkdir", at |-> Len(log)])
                          /\ log' = Append(log, inv)
                          /\ interrupted' = (interrupted \/ rc = "interrupt")
                          /\ disk' = fh_loader(disk, inv)
                          /\ ReturnOrRaise(subprocess_run(rc, TRUE), NoneV)
    /\ UNCHANGED <<Session_, detected, sleeps, saved>>

MutFhLoaderWritePartSwallows ==
    /\ At("fh_loader_write_part", "start")
    /\ IF ~exists[FH_LOADER_EXE]
       THEN Raise("FileNotFoundError") /\ UNCHANGED <<io, disk>>
       ELSE \E rc \in ToolResults :
               LET inv == InvocationIn(FH_LOADER_EXE,
                              WritePartArgs(arg_port, params.file.name, params.lun,
                                            params.start_sector),
                              rc, params.file.dir)
                   e == subprocess_run(rc, TRUE)
               IN /\ log' = Append(log, inv)
                  /\ interrupted' = (interrupted \/ rc = "interrupt")
                  /\ disk' = fh_loader(disk, inv)
                  /\ ReturnOrRaise(IF e = "CalledProcessError" THEN "None" ELSE e, NoneV)
                  /\ UNCHANGED effects
    /\ UNCHANGED <<Session_, detected, sleeps, saved>>

\* device.py:344-382: the executable is checked, then the one Firehose
\* invocation runs in the image's directory
FhLoaderWritePart ==
    /\ At("fh_loader_write_part", "start")
    /\ IF ~exists[FH_LOADER_EXE]
       THEN Raise("FileNotFoundError") /\ UNCHANGED <<io, disk>>
       ELSE \E rc \in ToolResults :
               LET inv == InvocationIn(FH_LOADER_EXE,
                              WritePartArgs(arg_port, params.file.name, params.lun,
                                            params.start_sector),
                              rc, params.file.dir)
               IN /\ log' = Append(log, inv)
                  /\ interrupted' = (interrupted \/ rc = "interrupt")
                  /\ disk' = fh_loader(disk, inv)
                  /\ ReturnOrRaise(subprocess_run(rc, TRUE), NoneV)
                  /\ UNCHANGED effects
    /\ UNCHANGED <<Session_, detected, sleeps, saved>>

MutEdlRawprogramIgnoresSahara ==
    /\ stack # <<>> /\ Head(stack) = Frame("edl_rawprogram", "L417")
    /\ \E rc \in ToolResults :
          /\ Run(FH_LOADER_EXE, RawprogramArgs(arg_port, params.raw_xmls, params.patch_xmls), rc)
          /\ ReturnOrRaise(run_command(rc, TRUE), NoneV)
    /\ UNCHANGED <<Fixed, detected, sleeps, saved>>

MutEdlRawprogramChecksSaharaOnly ==
    /\ At("edl_rawprogram", "start")
    /\ IF ~exists[QSAHARASERVER_EXE]
       THEN Raise("FileNotFoundError")
       ELSE CallFn("load_firehose_programmer", "L417") /\ UNCHANGED <<exc, ret>>
    /\ UNCHANGED <<Fixed, io, detected, sleeps, saved>>

\* device.py:399-415: both executables are checked, then the Sahara load
EdlRawprogram_Start ==
    /\ At("edl_rawprogram", "start")
    /\ IF ~exists[QSAHARASERVER_EXE] \/ ~exists[FH_LOADER_EXE]
       THEN Raise("FileNotFoundError")
       ELSE CallFn("load_firehose_programmer", "L417") /\ UNCHANGED <<exc, ret>>
    /\ UNCHANGED <<Fixed, io, detected, sleeps, saved>>

\* device.py:417-433: the Firehose invocation, reached when the load returned
EdlRawprogram_L417 ==
    /\ At("edl_rawprogram", "L417")
    /\ \E rc \in ToolResults :
          /\ Run(FH_LOADER_EXE, RawprogramArgs(arg_port, params.raw_xmls, params.patch_xmls), rc)
          /\ ReturnOrRaise(run_command(rc, TRUE), NoneV)
    /\ UNCHANGED <<Fixed, detected, sleeps, saved>>

-----------------------------------------------------------------------------
(* Specifications.                                                         *)

Next ==
    \/ Call
    \/ EnvChange
    \/ Propagate
    \/ WaitForAdb
    \/ GetDeviceModel_Start
    \/ GetDeviceModel_L36
    \/ GetActiveSlotSuffix_Start
    \/ GetActiveSlotSuffix_L55
    \/ GetActiveSlotSuffixFromFastboot
    \/ RebootToEdl_Start
    \/ RebootToEdl_L94
    \/ RebootToBootloader_Start
    \/ RebootToBootloader_L107
    \/ CheckFastbootDevice
    \/ WaitForFastboot_Start
    \/ WaitForFastboot_Loop
    \/ WaitForFastboot_Sleep
    \/ FastbootRebootSystem
    \/ GetFastbootVars_Start
    \/ GetFastbootVars_L170
    \/ GetFastbootVars_L181
    \/ GetFastbootVars_L183
    \/ GetFastbootVars_L195
    \/ GetFastbootVars_L205
    \/ CheckEdlDevice
    \/ WaitForEdl_Start
    \/ WaitForEdl_Loop
    \/ WaitForEdl_Sleep
    \/ SetupEdlConnection_Start
    \/ SetupEdlConnection_L255
    \/ SetupEdlConnection_L258
    \/ SetupEdlConnection_L262
    \/ LoadFirehoseProgrammer
    \/ FhLoaderReadPart
    \/ FhLoaderWritePart
    \/ FhLoaderReset
    \/ EdlRawprogram_Start
    \/ EdlRawprogram_L417

\* the controller, its caller and the device
Spec == Init /\ [][Next]_vars

\* check_edl_device applied to every port list of up to MaxPorts entries
InitScan ==
    /\ skip_adb = FALSE
    /\ edl_port = NoneV
    /\ exists = [x \in {QSAHARASERVER_EXE, FH_LOADER_EXE} |-> TRUE]
    /\ mode = "Normal"
    /\ ports \in PortLists
    /\ op = "check_edl_device"
    /\ arg_port = "None"
    /\ stack = <<Frame("check_edl_device", "start")>>
    /\ exc = "None"
    /\ ret = NoneV
    /\ log = <<>>
    /\ detected = <<>>
    /\ sleeps = 0
    /\ saved = NoneV
    /\ interrupted = FALSE
    /\ enum_ok = TRUE
    /\ effects = <<>>
    /\ params = NoneV
    /\ disk = NoneV

NextScan == CheckEdlDevice

SpecScan == InitScan /\ [][NextScan]_vars

\* a write to one of the console's streams, by the tool or by the runner
Write(by, stream, text) == [by |-> by, stream |-> stream, text |-> text]

\* print(text, file=stream): the text and a newline
Printed(stream, text) == Write("runner", stream, text \o <<"\n">>)

\* utils.py:20-23: what the tool itself writes to the console: with
\* capture_output=False it inherits the runner's streams, with
\* capture_output=True its output goes to the runner's pipes
ToolWrites(launch, out, err, capture) ==
    IF launch = "started" /\ ~capture
    THEN (IF out # <<>> THEN <<Write("tool", "stdout", out)>> ELSE <<>>)
         \o (IF err # <<>> THEN <<Write("tool", "stderr", err)>> ELSE <<>>)
    ELSE <<>>

\* utils.py:25-29: the echo of a call that returns; `process` is the
\* CompletedProcess, whose stdout and stderr are None without capture
Echo(process, capture) ==
    IF capture THEN <<>>
    ELSE (IF process.stdout # NoneV /\ Truthy(process.stdout.s)
          THEN <<Printed("stdout", strip(process.stdout.s))>> ELSE <<>>)
         \o (IF process.stderr # NoneV /\ Truthy(process.stderr.s)
             THEN <<Printed("stderr", strip(process.stderr.s))>> ELSE <<>>)

\* utils.py:32-42: the report of a call that raises
ErrorReport(e, value) ==
    CASE e = "FileNotFoundError" ->
            <<Printed("stderr", <<"Error: Command not found - ", "filename">>)>>
      [] e = "CalledProcessError" ->
            <<Printed("stderr", <<"Error executing command: ", "command">>),
              Printed("stderr", <<"Return code: ", value.returncode>>)>>
            \o (IF value.stdout # NoneV /\ Truthy(value.stdout.s)
                THEN <<Printed("stderr", <<"Stdout:", "\n">> \o strip(value.stdout.s))>>
                ELSE <<>>)
            \o (IF value.stderr # NoneV /\ Truthy(value.stderr.s)
                THEN <<Printed("stderr", <<"Stderr:", "\n">> \o strip(value.stderr.s))>>
                ELSE <<>>)
      [] OTHER -> <<>>

\* utils.py:15-42: everything one run_command call puts on the console
Console(launch, code, out, err, check, capture) ==
    LET o == RunOutcome(launch, code, out, err, check, capture)
    IN ToolWrites(launch, out, err, capture)
       \o (IF o.exc = "None" THEN Echo(o.value, capture) ELSE ErrorReport(o.exc, o.value))

\* constants.py: the two tool directories put in front of PATH
TOOLS_DIR == "TOOLS_DIR"
DOWNLOAD_DIR == "DOWNLOAD_DIR"

\* os.environ of the controller's process; PATH is its list of directories
Environ == [PATH |-> <<"/usr/bin">>, HOME |-> "/root"]

\* utils.py:15: the env argument of the call, None when it is not given
EnvArg == IF "env" \in DOMAIN params THEN params.env ELSE NoneV

\* utils.py:16: `env or os.environ.copy()` keeps the caller's dict unless
\* it is None or empty
IsCallers(env) == env # NoneV /\ DOMAIN env # {}

ChosenEnv(env) == IF IsCallers(env) THEN env ELSE Environ

\* utils.py:17: the assignment to env['PATH']
WithPath(env) == [env EXCEPT !["PATH"] = <<TOOLS_DIR, DOWNLOAD_DIR>> \o @]

\* utils.py:15-42: one run_command call
RunCommand ==
    /\ At("run_command", "start")
    /\ LET env == ChosenEnv(EnvArg)
           o == RunOutcome(params.launch, params.code, params.out, params.err,
                           params.check, params.capture)
       IN IF "PATH" \notin DOMAIN env
          THEN /\ Raise("KeyError")
               /\ effects' = <<>>
               /\ UNCHANGED <<log, interrupted, params>>
          ELSE /\ params' = IF IsCallers(EnvArg)
                            THEN [params EXCEPT !.env = WithPath(env)]
                            ELSE params
               /\ log' = Append(log, [exe |-> "command", args |-> <<>>,
                                      rc |-> ResultOf(params.launch, params.code),
                                      env |-> WithPath(env)])
               /\ interrupted' = (interrupted \/ params.launch = "interrupt")
               /\ effects' = Console(params.launch, params.code, params.out,
                                     params.err, params.check, params.capture)
               /\ stack' = Tail(stack)
               /\ exc' = o.exc
               /\ ret' = o.value
    /\ UNCHANGED <<skip_adb, edl_port, exists, mode, ports, op, arg_port, disk,
                   enum_ok, detected, sleeps, saved>>

\* run_command applied to every tool behaviour of RunParams
InitRun ==
    /\ skip_adb = FALSE
    /\ edl_port = NoneV
    /\ exists = [x \in {QSAHARASERVER_EXE, FH_LOADER_EXE} |-> TRUE]
    /\ mode = "Normal"
    /\ ports = <<>>
    /\ op = "run_command"
    /\ arg_port = "None"
    /\ stack = <<Frame("run_command", "start")>>
    /\ exc = "None"
    /\ ret = NoneV
    /\ log = <<>>
    /\ detected = <<>>
    /\ sleeps = 0
    /\ saved = NoneV
    /\ interrupted = FALSE
    /\ enum_ok = TRUE
    /\ effects = <<>>
    /\ params \in RunParams
    /\ disk = NoneV

NextRun == RunCommand

SpecRun == InitRun /\ [][NextRun]_vars

\* the calls of one caller with one env argument
MaxCalls == 2

\* env arguments: none, an empty dict, dicts with and without PATH
Overlays ==
    { NoneV, <<>>, [PATH |-> <<"/opt/bin">>],
      [PATH |-> <<"/opt/bin">>, LANG |-> "C"], [LANG |-> "C"] }

EnvParams ==
    { [launch |-> "started", code |-> c, out |-> <<"O", "K", "\n">>, err |-> <<>>,
       check |-> ch, capture |-> cap, env |-> e] :
        c \in {0, 1}, ch \in BOOLEAN, cap \in BOOLEAN, e \in Overlays }

\* run_command(command, env=env) called with every env of Overlays; saved
\* keeps the dict as the caller built it
InitEnv ==
    /\ skip_adb = FALSE
    /\ edl_port = NoneV
    /\ exists = [x \in {QSAHARASERVER_EXE, FH_LOADER_EXE} |-> TRUE]
    /\ mode = "Normal"
    /\ ports = <<>>
    /\ op = "run_command_env"
    /\ arg_port = "None"
    /\ stack = <<Frame("run_command", "start")>>
    /\ exc = "None"
    /\ ret = NoneV
    /\ log = <<>>
    /\ detected = <<>>
    /\ sleeps = 0
    /\ interrupted = FALSE
    /\ enum_ok = TRUE
    /\ effects = <<>>
    /\ params \in EnvParams
    /\ saved = params.env
    /\ disk = NoneV

\* the caller calls run_command again with the same env object
CallAgain ==
    /\ stack = <<>>
    /\ Len(log) < MaxCalls
    /\ stack' = <<Frame("run_command", "start")>>
    /\ exc' = "None"
    /\ ret' = NoneV
    /\ UNCHANGED <<Fixed, io, detected, sleeps, saved>>

NextEnv == RunCommand \/ CallAgain

SpecEnv == InitEnv /\ [][NextEnv]_vars

\* utils.py:113-123: the dependencies dict, in its order: display name and
\* the path whose existence is tested
Dependencies ==
    << [name |-> "Python Environment", path |-> "PYTHON_EXE"],
       [name |-> "ADB", path |-> ADB_EXE],
       [name |-> "Fastboot", path |-> FASTBOOT_EXE],
       [name |-> "RSA4096 Key", path |-> "KEY_RSA4096"],
       [name |-> "RSA2048 Key", path |-> "KEY_RSA2048"],
       [name |-> "avbtool", path |-> "AVBTOOL_PY"],
       [name |-> "fetch tool", path |-> "fetch"],
       [name |-> "edl-ng", path |-> "EDL_NG_EXE"],
       [name |-> "libusb", path |-> "LIBUSB_DLL"] >>

\* every file whose presence the controller ever tests
Files == { Dependencies[i].path : i \in 1..Len(Dependencies) }
            \cup {QSAHARASERVER_EXE, FH_LOADER_EXE}

\* utils.py:124: the names of the dependencies whose path does not exist
RECURSIVE missing_deps(_, _)
missing_deps(deps, present) ==
    IF deps = <<>> THEN <<>>
    ELSE (IF present[Head(deps).path] THEN <<>> ELSE <<Head(deps).name>>)
         \o missing_deps(Tail(deps), present)

\* utils.py:111-132: check_dependencies()
CheckDependencies ==
    /\ At("check_dependencies", "start")
    /\ LET missing == missing_deps(Dependencies, exists)
       IN IF missing # <<>>
          THEN /\ effects' = [i \in 1..Len(missing) |->
                                 Printed("stdout", <<"[!] Error: Dependency '", missing[i],
                                                     "' is missing.">>)]
                              \o <<Printed("stdout", <<"Please run one of the main scripts">>)>>
               /\ Raise("SystemExit")
          ELSE /\ effects' = <<Printed("stdout", <<"[+] All dependencies are present.", "\n">>)>>
               /\ Return(NoneV)
    /\ UNCHANGED <<Fixed, log, interrupted, detected, sleeps, saved>>

\* check_dependencies() on every combination of present and absent files
InitDeps ==
    /\ skip_adb = FALSE
    /\ edl_port = NoneV
    /\ exists \in [Files -> BOOLEAN]
    /\ mode = "Normal"
    /\ ports = <<>>
    /\ op = "check_dependencies"
    /\ arg_port = "None"
    /\ stack = <<Frame("check_dependencies", "start")>>
    /\ exc = "None"
    /\ ret = NoneV
    /\ log = <<>>
    /\ detected = <<>>
    /\ sleeps = 0
    /\ saved = NoneV
    /\ interrupted = FALSE
    /\ enum_ok = TRUE
    /\ effects = <<>>
    /\ params = NoneV
    /\ disk = NoneV

NextDeps == CheckDependencies

SpecDeps == InitDeps /\ [][NextDeps]_vars

\* the files of the waited-for directory that matter
FileNames == {"loader.melf", "other.bin"}
RequiredLists == { <<"loader.melf">>, <<"loader.melf", "other.bin">> }

\* what a wait_for_files call leaves alone: `disk` is the directory (whether
\* it exists and the files in it), `detected` the `missing` list of every
\* pass of the loop, `saved` the operator's answers to input()
Waiting_ == <<skip_adb, edl_port, exists, mode, ports, op, arg_port, params, enum_ok,
              log, sleeps>>

\* utils.py:59: directory.mkdir(exist_ok=True), which the file system may refuse
WaitForFiles_Start ==
    /\ At("wait_for_files", "start")
    /\ \E made \in BOOLEAN :
          IF disk.exists \/ made
          THEN /\ disk' = [disk EXCEPT !.exists = TRUE]
               /\ Goto("loop") /\ UNCHANGED <<exc, ret>>
          ELSE Raise("OSError") /\ UNCHANGED disk
    /\ UNCHANGED <<Waiting_, detected, saved, interrupted, effects>>

\* utils.py:61-66: the required files that are not in the directory
missing_files(required_files, dir) ==
    SelectSeq(required_files, LAMBDA file : file \notin dir.files)

MutWaitForFilesLoopAnyFound ==
    /\ At("wait_for_files", "loop")
    /\ LET missing == missing_files(params.required_files, disk)
       IN /\ detected' = Append(detected, missing)
          /\ IF Len(missing) < Len(params.required_files)
             THEN Return(BoolV(TRUE)) /\ UNCHANGED effects
             ELSE /\ effects' = Append(effects, [k |-> "prompt", missing |-> missing])
                  /\ Goto("input") /\ UNCHANGED <<exc, ret>>
    /\ UNCHANGED <<Waiting_, disk, saved, interrupted>>

\* utils.py:60-81: one pass of the loop up to the prompt (the screen is
\* cleared and the missing files are listed)
WaitForFiles_Loop ==
    /\ At("wait_for_files", "loop")
    /\ LET missing == missing_files(params.required_files, disk)
       IN /\ detected' = Append(detected, missing)
          /\ IF missing = <<>>
             THEN Return(BoolV(TRUE)) /\ UNCHANGED effects
             ELSE /\ effects' = Append(effects, [k |-> "prompt", missing |-> missing])
                  /\ Goto("input") /\ UNCHANGED <<exc, ret>>
    /\ UNCHANGED <<Waiting_, disk, saved, interrupted>>

\* utils.py:82-85: input(); while it blocks the operator may put files in the
\* directory or take them out, and ends the wait with Enter, end-of-file
\* (sys.exit(1)) or Ctrl+C
WaitForFiles_Input ==
    /\ At("wait_for_files", "input")
    /\ \E answer \in {"enter", "eof", "interrupt"} : \E files \in SUBSET FileNames :
          /\ answer = "enter" => Len(detected) < MaxPolls
          /\ saved' = Append(saved, answer)
          /\ disk' = [disk EXCEPT !.files = files]
          /\ interrupted' = (interrupted \/ answer = "interrupt")
          /\ CASE answer = "enter" -> Goto("loop") /\ UNCHANGED <<exc, ret>>
               [] answer = "eof" ->
                     /\ stack' = Tail(stack)
                     /\ exc' = "SystemExit"
                     /\ ret' = [k |-> "exit", status |-> 1]
               [] answer = "interrupt" -> Raise("KeyboardInterrupt")
    /\ UNCHANGED <<Waiting_, detected, effects>>

\* wait_for_files(directory, required_files, prompt_message) on every
\* directory content
InitFiles ==
    /\ skip_adb = FALSE
    /\ edl_port = NoneV
    /\ exists = [x \in {QSAHARASERVER_EXE, FH_LOADER_EXE} |-> TRUE]
    /\ mode = "Normal"
    /\ ports = <<>>
    /\ op = "wait_for_files"
    /\ arg_port = "None"
    /\ stack = <<Frame("wait_for_files", "start")>>
    /\ exc = "None"
    /\ ret = NoneV
    /\ log = <<>>
    /\ detected = <<>>
    /\ sleeps = 0
    /\ saved = <<>>
    /\ interrupted = FALSE
    /\ enum_ok = TRUE
    /\ effects = <<>>
    /\ params \in { [required_files |-> r] : r \in RequiredLists }
    /\ disk \in { [exists |-> e, files |-> IF e THEN f ELSE {}] :
                    e \in BOOLEAN, f \in SUBSET FileNames }

NextFiles == WaitForFiles_Start \/ WaitForFiles_Loop \/ WaitForFiles_Input

SpecFiles == InitFiles /\ [][NextFiles]_vars

\* what the simulated backend's test writes and where
SectorValues == {"A", "B"}
Images == UNION { [1..n -> SectorValues] : n \in 1..MaxImage }
Luns == {"0", "1"}
Starts == {"0", "1"}
Counts == { Digits[n + 1] : n \in 1..(MaxImage + 1) }

\* sectors of a LUN of the simulated flash: room for every read of the test
FlashSize == MaxImage + 3

\* an erased flash, the image in its file and no dump yet
InitRoundTrip ==
    /\ skip_adb = FALSE
    /\ edl_port = NoneV
    /\ exists = [x \in {QSAHARASERVER_EXE, FH_LOADER_EXE} |-> TRUE]
    /\ mode = "EDL"
    /\ ports = <<PortInfo(<<DescQdl, HwidEdl>>, 3)>>
    /\ op = "None"
    /\ arg_port = "None"
    /\ stack = <<>>
    /\ exc = "None"
    /\ ret = NoneV
    /\ log = <<>>
    /\ detected = <<>>
    /\ sleeps = 0
    /\ saved = NoneV
    /\ interrupted = FALSE
    /\ enum_ok = TRUE
    /\ effects = <<>>
    /\ params = NoneV
    /\ disk \in { [flash |-> [l \in Luns |-> [n \in 0..(FlashSize - 1) |-> "E"]],
                   files |-> [f \in {ImageFile, DumpFile} |->
                                 IF f = ImageFile THEN img ELSE <<>>]] :
                  img \in Images }

\* the test writes the image to a LUN and start sector
CallWrite ==
    /\ stack = <<>> /\ op = "None"
    /\ op' = "fh_loader_write_part"
    /\ stack' = <<Frame("fh_loader_write_part", "start")>>
    /\ arg_port' = "COM7"
    /\ params' \in { WriteParams(ImageFile, l, st) : l \in Luns, st \in Starts }
    /\ UNCHANGED <<skip_adb, edl_port, exists, mode, ports, exc, ret, log, detected,
                   sleeps, saved, interrupted, enum_ok, effects, disk>>

\* the test reads a range back into the dump file; `saved` remembers what
\* was written and whether the write returned
CallReadBack ==
    /\ stack = <<>> /\ op = "fh_loader_write_part"
    /\ op' = "fh_loader_read_part"
    /\ stack' = <<Frame("fh_loader_read_part", "start")>>
    /\ params' \in { ReadParams(DumpFile, l, st, n) : l \in Luns, st \in Starts, n \in Counts }
    /\ saved' = [k |-> "wrote", params |-> params, ok |-> exc = "None"]
    /\ exc' = "None" /\ ret' = NoneV /\ log' = <<>>
    /\ interrupted' = FALSE /\ effects' = <<>>
    /\ UNCHANGED <<skip_adb, edl_port, exists, mode, ports, arg_port, detected, sleeps,
                   enum_ok, disk>>

NextRoundTrip ==
    \/ CallWrite
    \/ FhLoaderWritePart
    \/ CallReadBack
    \/ FhLoaderReadPart

\* fh_loader_write_part, then fh_loader_read_part, against the simulated
\* Firehose backend
SpecRoundTrip == InitRoundTrip /\ [][NextRoundTrip]_vars

-----------------------------------------------------------------------------
(* Properties.                                                             *)

Last(q) == q[Len(q)]

\* the current call has ended
Ended == stack = <<>>

\* the current call has returned to its caller
Returned == stack = <<>> /\ exc = "None"

IsSahara(inv) == inv.exe = QSAHARASERVER_EXE
IsFirehose(inv) == inv.exe = FH_LOADER_EXE

\* C1: edl_rawprogram issues the Firehose invocation only after a Sahara
\* invocation of the same call ended with exit status 0; when the Sahara
\* invocation fails (non-zero exit, launch error, interrupt) the call issues
\* no Firehose invocation and the failure is raised to the caller.
C1_FirehoseOnlyAfterSahara ==
    op = "edl_rawprogram" =>
        /\ \A i \in 1..Len(log) :
              IsFirehose(log[i]) =>
                  \E j \in 1..(i - 1) : IsSahara(log[j]) /\ log[j].rc = "ok"
        /\ (\E j \in 1..Len(log) : IsSahara(log[j]) /\ log[j].rc # "ok") =>
              /\ \A i \in 1..Len(log) : ~IsFirehose(log[i])
              /\ exc # "None"
              /\ Len(stack) <= 1

C1_Witness ==
    /\ op = "edl_rawprogram"
    /\ Ended
    /\ exc = "CalledProcessError"
    /\ log = <<Invocation(QSAHARASERVER_EXE, SaharaArgs("COM7"), "nonzero")>>

\* C2: a setup_edl_connection call whose first check finds an EDL port
\* issues no ADB command at all (no `adb wait-for-device`, no `adb reboot
\* edl`), with skip_adb set or not, in every call.
C2_NoRebootWhenAlreadyEdl ==
    (op = "setup_edl_connection" /\ detected # <<>> /\ Present(detected[1])) =>
        \A i \in 1..Len(log) : ~IsAdb(log[i]) /\ ~IsReboot(log[i])

C2_Witness ==
    /\ op = "setup_edl_connection"
    /\ ~skip_adb
    /\ Ended
    /\ detected # <<>> /\ Present(detected[1])
    /\ log = <<>>

WaitOps == {"wait_for_edl", "wait_for_fastboot"}

\* the detector calls of the current call that found nothing
Failed == {i \in 1..Len(detected) : ~Present(detected[i])}

\* C3: in wait_for_edl and wait_for_fastboot only the last detector result
\* is ever a present one, the wait returns exactly that result as soon as the
\* detector gives it, and there is at most one sleep per failed detector call.
C3_WaitReturnsLastDetected ==
    op \in WaitOps =>
        /\ \A i \in 1..(Len(detected) - 1) : ~Present(detected[i])
        /\ sleeps <= Cardinality(Failed)
        /\ (detected # <<>> /\ Present(Last(detected))) =>
              Returned /\ ret = Last(detected)

C3_Witness ==
    /\ op = "wait_for_edl"
    /\ Returned
    /\ detected = <<NoneV, PortV("COM5")>>
    /\ ret = PortV("COM5")

C5_TwoExits ==
    op \in WaitOps =>
        /\ Ended =>
              \/ exc = "None" /\ detected # <<>> /\ Present(Last(detected))
                              /\ ret = Last(detected) /\ ~interrupted
              \/ exc = "KeyboardInterrupt" /\ interrupted
        /\ interrupted => Ended /\ exc = "KeyboardInterrupt"
        /\ (~interrupted /\ \A i \in 1..Len(detected) : ~Present(detected[i])) =>
              ~Ended /\ exc = "None"

C5_Witness ==
    /\ op = "wait_for_edl"
    /\ Ended
    /\ exc = "KeyboardInterrupt"
    /\ detected = <<NoneV, NoneV>>
    /\ sleeps = 0

\* pat occurs in s
Contains(s, pat) ==
    \E i \in 1..(Len(s) - Len(pat) + 1) : SubSeq(s, i, i + Len(pat) - 1) = pat

\* the classification of section 4.2: the description contains "Qualcomm"
\* and "9008", or the upper-cased hardware id contains "VID:PID=05C6:9008"
EdlPattern(port) ==
    \/ Contains(port.description, QUALCOMM) /\ Contains(port.description, S9008)
    \/ Contains(upper(port.hwid), VIDPID)

\* C6: check_edl_device returns None for a port list without a matching
\* entry and the device path of the first matching entry otherwise.
C6_FirstMatchWins ==
    (op = "check_edl_device" /\ Ended /\ enum_ok) =>
        IF \A i \in 1..Len(ports) : ~EdlPattern(ports[i])
        THEN ret = NoneV
        ELSE \E i \in 1..Len(ports) :
                /\ EdlPattern(ports[i])
                /\ \A j \in 1..(i - 1) : ~EdlPattern(ports[j])
                /\ ret = PortV(ports[i].device)

C6_Witness ==
    /\ op = "check_edl_device" /\ Ended /\ enum_ok
    /\ Len(ports) = 3
    /\ ~EdlPattern(ports[1]) /\ EdlPattern(ports[2]) /\ EdlPattern(ports[3])
    /\ ret = PortV("COM5")

\* C7: a single enumerated port is reported as the EDL device exactly when
\* it fits the pattern: the hardware id "USB VID:PID=05C6:9008 REV=0" does in
\* every letter case, "USB VID:PID=18D1:4EE0" does not, and the description
\* "qualcomm 9008" does not.
C7_Classification ==
    (op = "check_edl_device" /\ Ended /\ enum_ok /\ Len(ports) = 1) =>
        /\ ret = PortV(ports[1].device) <=> EdlPattern(ports[1])
        /\ ret = NoneV <=> ~EdlPattern(ports[1])
        /\ ports[1].hwid \in {HwidEdl, HwidEdlLower, HwidEdlMixed} =>
              ret = PortV(ports[1].device)
        /\ (ports[1].hwid = HwidAdb /\ ports[1].description \in {DescLower, DescSerial}) =>
              ret = NoneV

C7_Witness ==
    /\ op = "check_edl_device" /\ Ended /\ enum_ok
    /\ Len(ports) = 1
    /\ ports[1].description = DescSerial
    /\ ports[1].hwid = HwidEdlLower
    /\ ret = PortV("COM3")

IsRebootEdl(inv) == inv.exe = ADB_EXE /\ inv.args = <<"reboot", "edl">>

\* C8: edl_port changes only to a present value that the detector returned
\* last, in setup_edl_connection, and when the call requested a reboot the
\* detection is one made after the call's first check (so after the reboot
\* request); setup_edl_connection returns nothing else than such a value.
C8_HandleOnlyFromDetection ==
    /\ [](edl_port = NoneV \/ edl_port.k = "port")
    /\ []((op = "setup_edl_connection" /\ Returned) =>
             detected # <<>> /\ Present(Last(detected)) /\ ret = Last(detected))
    /\ [][edl_port' # edl_port =>
             /\ op = "setup_edl_connection"
             /\ detected' # <<>>
             /\ Present(Last(detected'))
             /\ edl_port' = Last(detected')
             /\ (\E i \in 1..Len(log') : IsRebootEdl(log'[i])) => Len(detected') >= 2]_vars

C8_Witness ==
    /\ op = "setup_edl_connection"
    /\ Ended
    /\ \E i \in 1..Len(log) : IsRebootEdl(log[i]) /\ log[i].rc = "ok"
    /\ edl_port = NoneV

\* the operations that ask the device to reboot or reset
ResetOps ==
    { "fh_loader_reset", "reboot_to_bootloader", "reboot_to_edl",
      "fastboot_reboot_system", "get_fastboot_vars" }

\* every tool invocation of the current call ended with exit status 0
AllToolsOk == \A i \in 1..Len(log) : log[i].rc = "ok"

\* C9: after an operation that requests a reboot or reset the session holds
\* no EDL handle, and the handle is set again by setup_edl_connection, from
\* a detection: a setup_edl_connection call that no interrupt and no tool
\* failure ended has recorded the port the detector returned last.
C9_InvalidatedUntilReacquired ==
    /\ (op \in ResetOps /\ Ended) => edl_port = NoneV
    /\ (op = "setup_edl_connection" /\ Ended /\ ~interrupted /\ AllToolsOk) =>
          detected # <<>> /\ Present(Last(detected)) /\ edl_port = Last(detected)

\* what holds of the handle: no operation of the controller ever sets it
HandleNeverRecorded == edl_port = NoneV

\* C10: with skip_adb set no operation issues an ADB command, and
\* get_fastboot_vars and setup_edl_connection, unless interrupted, poll for
\* arrival and return only after the detector found the target mode.
C10_SkipAdbStillPolls ==
    skip_adb =>
        /\ \A i \in 1..Len(log) : ~IsAdb(log[i])
        /\ (op = "get_fastboot_vars" /\ Returned) =>
              detected # <<>> /\ Present(Last(detected))
        /\ (op = "setup_edl_connection" /\ Ended /\ ~interrupted) =>
              Returned /\ Present(Last(detected)) /\ ret = Last(detected)

\* what holds with skip_adb set: no ADB command, and get_fastboot_vars
\* returns only after `fastboot devices` listed a device
SkipAdbIssuesNoAdb ==
    skip_adb =>
        /\ \A i \in 1..Len(log) : ~IsAdb(log[i])
        /\ (op = "get_fastboot_vars" /\ Returned) =>
              detected # <<>> /\ Present(Last(detected))

IsPoll(inv) == inv.exe = FASTBOOT_EXE /\ inv.args = <<"devices">>
IsGetvar(inv) == inv.exe = FASTBOOT_EXE /\ inv.args = <<"getvar", "all">>
IsFastbootReboot(inv) == inv.exe = FASTBOOT_EXE /\ inv.args = <<"reboot">>

\* run_command could not start `fastboot getvar all`
LaunchErrors == {"notfound", "oserror"}

\* the exception a launch error is raised as
LaunchException(rc) == IF rc = "notfound" THEN "FileNotFoundError" ELSE "OSError"

\* C11: when `getvar all` fails in get_fastboot_vars and skip_adb is not
\* set, the call issues `fastboot reboot` exactly once, right after the
\* failed retrieval, and then ends raising the retrieval's own failure,
\* whether the cleanup reboot succeeded or failed (non-zero exit or launch
\* error).
C11_CleanupKeepsOriginalFailure ==
    (op = "get_fastboot_vars" /\ ~skip_adb) =>
        \A i \in 1..Len(log) :
            (IsGetvar(log[i]) /\ log[i].rc \in LaunchErrors) =>
                /\ i = Len(log) =>
                      /\ stack # <<>>
                      /\ Head(stack) = Frame("fastboot_reboot_system", "start")
                      /\ exc = "None"
                /\ i < Len(log) =>
                      /\ Len(log) = i + 1
                      /\ IsFastbootReboot(log[i + 1])
                      /\ log[i + 1].rc # "interrupt" =>
                            /\ ~Returned
                            /\ Ended => exc = LaunchException(log[i].rc)
                            /\ ~Ended => exc = "None"

C11_Witness ==
    /\ op = "get_fastboot_vars" /\ ~skip_adb
    /\ Ended
    /\ exc = "OSError"
    /\ Len(log) >= 2
    /\ IsGetvar(log[Len(log) - 1]) /\ log[Len(log) - 1].rc = "oserror"
    /\ IsFastbootReboot(Last(log)) /\ Last(log).rc = "nonzero"

\* the steps get_fastboot_vars takes before the poll
Requested ==
    IF skip_adb
    THEN effects = <<[k |-> "prompt", at |-> 0]>>
    ELSE /\ Len(log) >= 2
         /\ log[1] = Invocation(ADB_EXE, <<"wait-for-device">>, "ok")
         /\ log[2] = Invocation(ADB_EXE, <<"reboot", "bootloader">>, "ok")
         /\ effects = <<[k |-> "delay", at |-> 2]>>

\* C12: get_fastboot_vars takes its steps in one order: the reboot request
\* and the settle delay (with skip_adb: the prompt) come before the first
\* `fastboot devices`; `getvar all` is issued once, right after a `fastboot
\* devices` that found a device; `fastboot reboot` is issued only as the
\* last invocation, right after a `getvar all` that has ended.
C12_FixedOrder ==
    op = "get_fastboot_vars" =>
        \A i \in 1..Len(log) :
            /\ IsPoll(log[i]) =>
                  /\ Requested
                  /\ i > effects[1].at
                  /\ \A j \in 1..(i - 1) : ~IsGetvar(log[j]) /\ ~IsFastbootReboot(log[j])
            /\ IsGetvar(log[i]) =>
                  /\ Requested
                  /\ i > 1 /\ IsPoll(log[i - 1])
                  /\ detected # <<>> /\ Last(detected) = BoolV(TRUE)
                  /\ \A j \in 1..(i - 1) : ~IsGetvar(log[j])
            /\ IsFastbootReboot(log[i]) =>
                  /\ i = Len(log)
                  /\ i > 1 /\ IsGetvar(log[i - 1]) /\ log[i - 1].rc # "interrupt"

C12_Witness ==
    /\ op = "get_fastboot_vars" /\ ~skip_adb
    /\ Returned
    /\ detected = <<BoolV(FALSE), BoolV(FALSE), BoolV(TRUE)>>
    /\ Len(log) = 7
    /\ IsGetvar(log[6]) /\ IsFastbootReboot(log[7])

\* C13: with skip_adb set get_fastboot_vars issues no reboot command,
\* neither `adb reboot bootloader` nor `fastboot reboot`, whether it returns
\* or fails; with skip_adb not set a call that returned has issued exactly
\* one `fastboot reboot`, as its last invocation after `getvar all`.
C13_RebootBackUnlessSkipped ==
    op = "get_fastboot_vars" =>
        /\ skip_adb => \A i \in 1..Len(log) : ~IsReboot(log[i])
        /\ (~skip_adb /\ Returned) =>
              /\ Cardinality({i \in 1..Len(log) : IsFastbootReboot(log[i])}) = 1
              /\ IsFastbootReboot(Last(log))
              /\ IsGetvar(log[Len(log) - 1])

C13_Witness ==
    /\ op = "get_fastboot_vars" /\ skip_adb
    /\ Returned
    /\ mode = "Bootloader"
    /\ IsGetvar(Last(log)) /\ Last(log).rc = "ok"
    /\ ret = saved /\ ret.k = "str"

\* C14: load_firehose_programmer issues at most one Sahara invocation per
\* call, and when that invocation exits non-zero it is the call's last
\* invocation and the call ends raising CalledProcessError: it does not
\* return and does not invoke the tool again.
C14_SaharaFailureFatal ==
    op = "load_firehose_programmer" =>
        /\ Len(log) <= 1
        /\ \A i \in 1..Len(log) :
              /\ IsSahara(log[i])
              /\ log[i].rc = "nonzero" => Ended /\ exc = "CalledProcessError"

C14_Witness ==
    /\ op = "load_firehose_programmer"
    /\ Ended
    /\ exc = "CalledProcessError"
    /\ log = <<Invocation(QSAHARASERVER_EXE, SaharaArgs("COM5"), "nonzero")>>

PartOps == {"fh_loader_read_part", "fh_loader_write_part"}

\* C15: a fh_loader_read_part or fh_loader_write_part call that gets to run
\* the tool (the executable is there, the output directory could be made)
\* issues exactly one Firehose invocation; a non-zero exit ends the call with
\* CalledProcessError and nothing is invoked again; the call returns exactly
\* when the invocation exited with status 0.
C15_OneFirehoseInvocation ==
    op \in PartOps =>
        /\ Len(log) <= 1
        /\ \A i \in 1..Len(log) : IsFirehose(log[i])
        /\ (Ended /\ log = <<>>) =>
              \/ ~exists[FH_LOADER_EXE] /\ exc = "FileNotFoundError"
              \/ op = "fh_loader_read_part" /\ effects = <<>> /\ exc = "OSError"
        /\ log # <<>> =>
              /\ Ended
              /\ log[1].rc = "nonzero" => exc = "CalledProcessError"
              /\ Returned <=> log[1].rc = "ok"

C15_Witness ==
    /\ op = "fh_loader_write_part"
    /\ Ended
    /\ exc = "CalledProcessError"
    /\ Len(log) = 1 /\ IsFirehose(log[1]) /\ log[1].rc = "nonzero"

\* the executable a stage requires
StageExe ==
    [fn \in {"load_firehose_programmer", "fh_loader_read_part", "fh_loader_write_part",
             "fh_loader_reset"} |->
        IF fn = "load_firehose_programmer" THEN QSAHARASERVER_EXE ELSE FH_LOADER_EXE]

\* C16: a load_firehose_programmer, fh_loader_read_part, fh_loader_write_part
\* or fh_loader_reset call whose executable is absent ends with
\* FileNotFoundError, having invoked no tool, made no directory and changed
\* nothing on the disk.
C16_MissingExecutableFirst ==
    (op \in DOMAIN StageExe /\ ~exists[StageExe[op]]) =>
        /\ log = <<>>
        /\ effects = <<>>
        /\ ~Returned
        /\ Ended => exc = "FileNotFoundError"

C16_Witness ==
    /\ op = "fh_loader_read_part"
    /\ ~exists[FH_LOADER_EXE]
    /\ Ended
    /\ exc = "FileNotFoundError"
    /\ log = <<>> /\ effects = <<>>

\* C17: against the simulated backend, a fh_loader_read_part that returned,
\* made after a fh_loader_write_part that returned, with the write's LUN and
\* start sector and a sector count that covers the image, leaves in the dump
\* file the sectors of the image, followed by nothing when the count is the
\* image's length.
C17_RoundTrip ==
    (/\ op = "fh_loader_read_part" /\ Returned
     /\ saved # NoneV /\ saved.ok
     /\ params.lun = saved.params.lun
     /\ params.start_sector = saved.params.start_sector
     /\ int(params.num_sectors) >= Len(disk.files[saved.params.file])) =>
        LET image == disk.files[saved.params.file]
            dump == disk.files[params.file]
        IN /\ Len(dump) = int(params.num_sectors)
           /\ SubSeq(dump, 1, Len(image)) = image

C17_Witness ==
    /\ op = "fh_loader_read_part" /\ Returned
    /\ saved # NoneV /\ saved.ok
    /\ params = ReadParams(DumpFile, "1", "1", "2")
    /\ saved.params = WriteParams(ImageFile, "1", "1")
    /\ disk.files[ImageFile] = <<"A", "B">>
    /\ disk.files[DumpFile] = <<"A", "B">>

SlotOps == {"get_active_slot_suffix", "get_active_slot_suffix_from_fastboot"}

SlotSuffixes == {StrV(<<"_", "a">>), StrV(<<"_", "b">>), NoneV}

\* C18: a slot query whose tool printed its raw output (kept in `saved`)
\* returns "_a", "_b" or None and raises nothing, whatever the output is; the
\* raw output "c" gives None.
C18_SlotSuffixInSet ==
    (op \in SlotOps /\ Ended /\ saved # NoneV) =>
        /\ Returned
        /\ ret \in SlotSuffixes
        /\ saved = StrV(<<"c">>) => ret = NoneV

HasBrace(s) == \E i \in 1..Len(s) : s[i] \in {"{", "}"}

\* what holds of the slot queries: the same, for raw output without braces
SlotSuffixInSetWithoutBraces ==
    (op \in SlotOps /\ Ended /\ saved # NoneV /\ ~HasBrace(saved.s)) =>
        /\ Returned
        /\ ret \in SlotSuffixes
        /\ saved = StrV(<<"c">>) => ret = NoneV

\* a tool invocation that failed: non-zero exit or launch error
ToolFailed(inv) == inv.rc \in {"nonzero", "notfound", "oserror"}

\* C19: a get_active_slot_suffix call in which a tool invocation failed,
\* `adb wait-for-device` included, returns None to its caller.
C19_FailedQueryReturnsNone ==
    (op = "get_active_slot_suffix" /\ Ended /\ \E i \in 1..Len(log) : ToolFailed(log[i])) =>
        Returned /\ ret = NoneV

\* what holds of get_active_slot_suffix: a failure of the getprop query
\* itself returns None
SlotQueryFailureReturnsNone ==
    (op = "get_active_slot_suffix" /\ Ended /\ Len(log) = 2 /\ ToolFailed(log[2])) =>
        Returned /\ ret = NoneV

\* C20 as stated: for a tool that ran, run_command returns exactly when
\* the exit status is 0 and raises a failure carrying the exit code for every
\* other exit status, whatever the tool printed.
C20_SuccessIffExitZero ==
    (op = "run_command" /\ Ended /\ params.launch = "started") =>
        /\ Returned <=> params.code = 0
        /\ params.code # 0 => exc = "CalledProcessError" /\ ret.returncode = params.code

\* C20, amended: for a tool that ran, whatever it printed, the outcome
\* carries the exit status; called with check (the default) run_command
\* returns exactly when the exit status is 0 and raises CalledProcessError for
\* every other exit status; called with check=False it returns for every exit
\* status and raises nothing.
C20_ExitStatusDecidesWhenChecked ==
    (op = "run_command" /\ Ended /\ params.launch = "started") =>
        /\ ret.returncode = params.code
        /\ params.check =>
              /\ Returned <=> params.code = 0
              /\ params.code # 0 => exc = "CalledProcessError"
        /\ ~params.check => Returned

C20_Witness ==
    /\ op = "run_command" /\ Ended
    /\ params.launch = "started" /\ params.check
    /\ params.code = 255
    /\ params.out = <<"O", "K", "\n">> /\ params.err = <<>>
    /\ exc = "CalledProcessError"
    /\ ret.returncode = 255

\* what makes an invocation a failing one, and the error kind that reports it
FailureKinds == {"notfound", "nonzero", "oserror"}
ErrorKind(rc) ==
    CASE rc = "notfound" -> "FileNotFoundError"
      [] rc = "nonzero" -> "CalledProcessError"
      [] rc = "oserror" -> "OSError"

\* C21 as stated: every failing invocation of run_command (executable not
\* found, non-zero exit, another error opening the process) is reported as
\* exactly its own one of three distinct error kinds, the non-zero exit with
\* its code, and none is converted into another kind or into success.
C21_EachFailureReportedAsItsKind ==
    (op = "run_command" /\ Ended
        /\ ResultOf(params.launch, params.code) \in FailureKinds) =>
        /\ exc = ErrorKind(ResultOf(params.launch, params.code))
        /\ exc = "CalledProcessError" => ret.returncode = params.code

\* C21, amended: the three error kinds are distinct and every failing
\* invocation of run_command is reported as exactly its own kind, the
\* non-zero exit with its code, none converted into another kind or into
\* success, except that a call made with check=False returns a non-zero exit
\* to the caller, with its code, instead of raising it.
C21_DistinctErrorKinds ==
    /\ \A a, b \in FailureKinds : ErrorKind(a) = ErrorKind(b) => a = b
    /\ (op = "run_command" /\ Ended
          /\ ResultOf(params.launch, params.code) \in FailureKinds) =>
          LET rc == ResultOf(params.launch, params.code)
          IN IF rc = "nonzero" /\ ~params.check
             THEN Returned /\ ret.returncode = params.code
             ELSE /\ exc = ErrorKind(rc)
                  /\ rc = "nonzero" => ret.returncode = params.code

C21_Witness ==
    /\ op = "run_command" /\ Ended
    /\ params.launch = "oserror" /\ ~params.check
    /\ exc = "OSError"

\* the text that reached one stream of the console
RECURSIVE Shown(_, _)
Shown(writes, stream) ==
    IF writes = <<>> THEN <<>>
    ELSE (IF Head(writes).stream = stream THEN Head(writes).text ELSE <<>>)
         \o Shown(Tail(writes), stream)

\* what the echo of the collected text would put on a stream: the text
\* without its trailing whitespace, then a newline; nothing for no content
Trimmed(text) == IF rstrip(text) = <<>> THEN <<>> ELSE rstrip(text) \o <<"\n">>

\* C22: for a call that returns after the tool ran: without capture the
\* runner collected stdout and stderr and each console stream shows the
\* tool's text for that stream with its trailing whitespace trimmed; with
\* capture the text is in the returned value and the console shows nothing.
C22_EchoTrimmedUnlessCaptured ==
    (op = "run_command" /\ Returned /\ params.launch = "started") =>
        IF params.capture
        THEN /\ ret.stdout = StrV(params.out) /\ ret.stderr = StrV(params.err)
             /\ effects = <<>>
        ELSE /\ Shown(effects, "stdout") = Trimmed(params.out)
             /\ Shown(effects, "stderr") = Trimmed(params.err)
             /\ \A i \in 1..Len(effects) : effects[i].by = "runner"

\* what the code does without capture: the tool writes to the console
\* itself, untrimmed, and the runner has nothing to echo
NonCapturingOutputIsRaw ==
    (op = "run_command" /\ Returned /\ params.launch = "started" /\ ~params.capture) =>
        /\ Shown(effects, "stdout") = params.out
        /\ Shown(effects, "stderr") = params.err
        /\ \A i \in 1..Len(effects) : effects[i].by = "tool"
        /\ ret.stdout = NoneV /\ ret.stderr = NoneV

\* how many times directory d stands in a PATH
RECURSIVE Occurrences(_, _)
Occurrences(path, d) ==
    IF path = <<>> THEN 0
    ELSE (IF Head(path) = d THEN 1 ELSE 0) + Occurrences(Tail(path), d)

\* C23: every invocation of run_command runs with every variable of the
\* base environment, unchanged unless the caller's overlay sets it, and with
\* a PATH that is the two tool directories, once, in front of the PATH it
\* had; the caller's overlay is the same after the calls as before them.
C23_BaseEnvironmentOnlyPathExtended ==
    op = "run_command_env" =>
        /\ \A i \in 1..Len(log) :
              /\ \A v \in DOMAIN Environ :
                    /\ v \in DOMAIN log[i].env
                    /\ (v # "PATH" /\ (saved = NoneV \/ v \notin DOMAIN saved))
                          => log[i].env[v] = Environ[v]
              /\ SubSeq(log[i].env.PATH, 1, 2) = <<TOOLS_DIR, DOWNLOAD_DIR>>
              /\ Occurrences(log[i].env.PATH, TOOLS_DIR) = 1
              /\ Occurrences(log[i].env.PATH, DOWNLOAD_DIR) = 1
        /\ params.env = saved

\* what the code does when the caller gives no environment (every call
\* site of the repository): the base environment with PATH extended once
BaseEnvironmentWhenNoOverlay ==
    (op = "run_command_env" /\ ~IsCallers(saved)) =>
        /\ \A i \in 1..Len(log) : log[i].env = WithPath(Environ)
        /\ params.env = saved

\* C24: no Sahara or Firehose invocation that has started is cut short by
\* the operator's interrupt: each of them runs until the tool itself ends,
\* with success or with a failure the tool reports, and no call ends with
\* the interrupt raised out of such an invocation.
C24_StartedTransferRunsToCompletion ==
    /\ \A i \in 1..Len(log) :
          (IsSahara(log[i]) \/ IsFirehose(log[i])) => log[i].rc # "interrupt"
    /\ (Ended /\ exc = "KeyboardInterrupt" /\ log # <<>>) =>
          ~(Last(log).rc = "interrupt" /\ (IsSahara(Last(log)) \/ IsFirehose(Last(log))))

\* what the code does: the interrupt that arrives while the runner waits for
\* a Sahara or Firehose tool ends the invocation and leaves the operation as
\* KeyboardInterrupt
InterruptedTransferPropagates ==
    (Ended /\ log # <<>> /\ Last(log).rc = "interrupt"
        /\ (IsSahara(Last(log)) \/ IsFirehose(Last(log)))) =>
        exc = "KeyboardInterrupt"

\* the four executables the device operations need
RequiredExes == {ADB_EXE, FASTBOOT_EXE, QSAHARASERVER_EXE, FH_LOADER_EXE}

\* the display name under which the dependency check reports a path
NameOf(path) ==
    IF \E i \in 1..Len(Dependencies) : Dependencies[i].path = path
    THEN Dependencies[CHOOSE i \in 1..Len(Dependencies) : Dependencies[i].path = path].name
    ELSE path

\* some line of the check's output names the dependency
Named(name) ==
    \E i \in 1..Len(effects) : \E j \in 1..Len(effects[i].text) : effects[i].text[j] = name

\* C25: when any of the four required executables is absent the dependency
\* check ends the program (before the caller can issue a device operation)
\* and its output names each of the absent ones.
C25_MissingExecutableFatalAndNamed ==
    (op = "check_dependencies" /\ Ended) =>
        \A x \in RequiredExes :
            ~exists[x] => exc = "SystemExit" /\ Named(NameOf(x))

\* what the code does: the check is fatal exactly when one of the nine
\* files of its own list is absent, and names each of those
DependencyCheckCoversItsList ==
    (op = "check_dependencies" /\ Ended) =>
        /\ exc = "SystemExit" <=>
              \E i \in 1..Len(Dependencies) : ~exists[Dependencies[i].path]
        /\ \A i \in 1..Len(Dependencies) :
              ~exists[Dependencies[i].path] => Named(Dependencies[i].name)

\* C26: check_fastboot_device never raises; it returns true when `fastboot
\* devices` ran and its trimmed stdout is not empty, whatever the exit status
\* and stderr, and false when the output is empty or blank or the command
\* could not be run.
C26_TrueIffNonEmptyStdout ==
    (op = "check_fastboot_device" /\ Ended /\ log # <<>>) =>
        /\ exc = "None"
        /\ ret = BoolV(Last(log).rc \in {"ok", "nonzero"} /\ saved # NoneV
                       /\ strip(saved.s) # <<>>)

\* what the code does for output without braces when no interrupt arrives
TrueIffNonEmptyStdoutWithoutBraces ==
    (op = "check_fastboot_device" /\ Ended /\ log # <<>>
        /\ Last(log).rc # "interrupt"
        /\ (saved # NoneV => ~HasBrace(saved.s))) =>
        /\ exc = "None"
        /\ ret = BoolV(Last(log).rc \in {"ok", "nonzero"} /\ saved # NoneV
                       /\ strip(saved.s) # <<>>)

\* an ADB or Fastboot command that reboots the device
IsHostReboot(inv) == inv.exe \in {ADB_EXE, FASTBOOT_EXE} /\ IsReboot(inv)

\* the Firehose command that makes the device leave EDL
IsFirehoseReset(inv) ==
    IsFirehose(inv) /\ \E j \in 1..Len(inv.args) : inv.args[j] = "--reset"

\* the operation has found the device in EDL mode
EdlDetected == \E j \in 1..Len(detected) : detected[j].k = "port"

C28_SetupRecordsDetectedPort ==
    (op = "setup_edl_connection" /\ Ended /\ ~interrupted /\ AllToolsOk) =>
        /\ Returned
        /\ ret.k = "port"
        /\ edl_port = ret

\* what the code does: every setup_edl_connection call that reaches the
\* loader-file wait ends there with TypeError, before any file is looked for
SetupEndsAtLoaderWait ==
    (op = "setup_edl_connection" /\ Ended /\ ~interrupted /\ AllToolsOk) =>
        exc = "TypeError" /\ edl_port = NoneV

\* the names of a descriptor list in the list's order, a comma between two
\* neighbours
RECURSIVE CommaJoined(_)
CommaJoined(xmls) ==
    IF xmls = <<>> THEN ""
    ELSE IF Len(xmls) = 1 THEN xmls[1].name
    ELSE CommaJoined(SubSeq(xmls, 1, Len(xmls) - 1)) \o "," \o xmls[Len(xmls)].name

\* the Firehose invocations of the current call
FirehoseAt == {i \in 1..Len(log) : IsFirehose(log[i])}

\* C29: edl_rawprogram issues at most one Firehose invocation, exactly one
\* when it returns, right after a Sahara load that succeeded; its arguments
\* hold the raw-program list and then the patch list, each as one --sendxml
\* value with the names comma-joined in the order of the plan, and
\* --setactivepartition=1 and --showpercentagecomplete.
C29_OneFirehoseWithOrderedLists ==
    op = "edl_rawprogram" =>
        /\ Cardinality(FirehoseAt) <= 1
        /\ Returned => Cardinality(FirehoseAt) = 1
        /\ \A i \in FirehoseAt :
              /\ i = Len(log) /\ i > 1
              /\ IsSahara(log[i - 1]) /\ log[i - 1].rc = "ok"
              /\ \E a, b \in 1..Len(log[i].args) :
                    /\ a < b
                    /\ log[i].args[a] = "--sendxml=" \o CommaJoined(params.raw_xmls)
                    /\ log[i].args[b] = "--sendxml=" \o CommaJoined(params.patch_xmls)
                    /\ \A c \in 1..Len(log[i].args) :
                          (c < a \/ c > b) => log[i].args[c] \notin
                              { "--sendxml=" \o CommaJoined(r) : r \in RawXmlLists \cup PatchXmlLists }
              /\ \E c \in 1..Len(log[i].args) : log[i].args[c] = "--setactivepartition=1"
              /\ \E c \in 1..Len(log[i].args) : log[i].args[c] = "--showpercentagecomplete"

C29_Witness ==
    /\ op = "edl_rawprogram" /\ Returned
    /\ Len(params.raw_xmls) = 2 /\ params.raw_xmls[1].name = "rawprogram1.xml"
    /\ Len(params.patch_xmls) = 2
    /\ Len(log) = 2
    /\ log[2].args[4] = "--sendxml=rawprogram1.xml,rawprogram0.xml"
    /\ log[2].args[5] = "--sendxml=patch0.xml,patch1.xml"

\* C30: fh_loader_reset, with the Firehose loader present, issues exactly
\* one invocation, the reset; when that invocation exits non-zero the runner
\* reports it and the call ends with CalledProcessError; no step of the call
\* changes edl_port or skip_adb.
C30_ResetOnceAndPropagates ==
    /\ []((op = "fh_loader_reset" /\ Ended /\ exists[FH_LOADER_EXE]) =>
             /\ Len(log) = 1
             /\ log[1].exe = FH_LOADER_EXE /\ log[1].args = ResetArgs(arg_port)
             /\ IsFirehoseReset(log[1])
             /\ log[1].rc = "nonzero" =>
                   /\ exc = "CalledProcessError"
                   /\ effects = <<[k |-> "report", at |-> 1]>>)
    /\ [][op = "fh_loader_reset" /\ op' = op =>
             edl_port' = edl_port /\ skip_adb' = skip_adb]_vars

C30_Witness ==
    /\ op = "fh_loader_reset" /\ Ended
    /\ exists[FH_LOADER_EXE]
    /\ log = <<Invocation(FH_LOADER_EXE, ResetArgs("COM7"), "nonzero")>>
    /\ exc = "CalledProcessError"
    /\ effects = <<[k |-> "report", at |-> 1]>>

IsRebootBootloader(inv) == inv.exe = ADB_EXE /\ inv.args = <<"reboot", "bootloader">>

\* the current call issued this reboot request and the command failed
RebootEdlFailed == \E i \in 1..Len(log) : IsRebootEdl(log[i]) /\ ToolFailed(log[i])
RebootBootloaderFailed ==
    \E i \in 1..Len(log) : IsRebootBootloader(log[i]) /\ ToolFailed(log[i])

\* a failed `adb reboot bootloader` ends get_fastboot_vars: no poll, no
\* Fastboot command, and the call ends with the failure of the command
BootloaderFailureAborts ==
    (op = "get_fastboot_vars" /\ RebootBootloaderFailed) =>
        /\ detected = <<>>
        /\ \A i \in 1..Len(log) : log[i].exe # FASTBOOT_EXE
        /\ Ended => exc = ErrorKind(Last(log).rc)

\* C31: a failed `adb reboot edl` is swallowed, so a setup_edl_connection
\* call that nothing interrupts goes on to the loader-file wait and to the
\* EDL poll and does not end with a failure; a failed `adb reboot
\* bootloader` is raised again, so get_fastboot_vars ends with it before any
\* poll and before any Fastboot command.
C31_RebootFailureHandling ==
    /\ (op = "setup_edl_connection" /\ Ended /\ ~interrupted /\ RebootEdlFailed) =>
          /\ Len(detected) >= 2
          /\ exc = "None"
    /\ BootloaderFailureAborts

\* what the code does after a failed `adb reboot edl`: the failure is
\* swallowed and setup_edl_connection goes on, through the settle delay, to
\* the call of the loader-file wait, where it ends with TypeError without
\* having polled
EdlFailureSwallowedUntilLoaderWait ==
    (op = "setup_edl_connection" /\ Ended /\ ~interrupted /\ RebootEdlFailed) =>
        /\ effects = <<[k |-> "delay", at |-> Len(log)]>>
        /\ Len(detected) = 1
        /\ exc = "TypeError"

\* C32: an edl_rawprogram call made while the Sahara-upload tool or the
\* Firehose-loader tool is absent invokes no tool at all (the programmer is
\* not uploaded), does not return, and ends with FileNotFoundError.
C32_BothExecutablesCheckedFirst ==
    (op = "edl_rawprogram" /\ (~exists[QSAHARASERVER_EXE] \/ ~exists[FH_LOADER_EXE])) =>
        /\ log = <<>>
        /\ ~Returned
        /\ Ended => exc = "FileNotFoundError"

C32_Witness ==
    /\ op = "edl_rawprogram"
    /\ exists[QSAHARASERVER_EXE] /\ ~exists[FH_LOADER_EXE]
    /\ Ended
    /\ exc = "FileNotFoundError"
    /\ log = <<>>

\* how many times the operator confirmed with Enter
Confirmations == Len(SelectSeq(saved, LAMBDA a : a = "enter"))

\* every required file is in the directory
AllRequiredPresent ==
    \A i \in 1..Len(params.required_files) : params.required_files[i] \in disk.files

\* a wait_for_files call returns True only with every required file present,
\* and has looked for the files once at its start and once more after every
\* confirmation
ReturnsOnlyWhenAllPresent ==
    /\ (op = "wait_for_files" /\ Returned) =>
          /\ ret = BoolV(TRUE)
          /\ AllRequiredPresent
          /\ Last(detected) = <<>>
    /\ (op = "wait_for_files" /\ stack # <<>> /\ Head(stack).pc = "input") =>
          /\ Len(detected) = Confirmations + 1
          /\ Last(detected) # <<>>
    /\ (op = "wait_for_files" /\ Ended /\ detected # <<>>) =>
          Len(detected) = Confirmations + 1

\* C33 as stated: wait_for_files returns True only with every required file
\* present, looks again after every confirmation, and a call that does not
\* return ends the process with exit status 1 after end-of-file on the
\* operator's input, in no other way.
C33_ReturnsOrExitsOnEof ==
    /\ ReturnsOnlyWhenAllPresent
    /\ (op = "wait_for_files" /\ Ended /\ ~Returned) =>
          /\ exc = "SystemExit" /\ ret.status = 1
          /\ saved # <<>> /\ Last(saved) = "eof"

\* C33, amended: wait_for_files returns True only with every required file
\* present and looks again after every confirmation; a call that does not
\* return ends the process with exit status 1 after end-of-file on the
\* operator's input, or raises the operator's interrupt of that input, or
\* raises the error of creating the directory before it has looked for any
\* file.
C33_ReturnsExitsOrRaises ==
    /\ ReturnsOnlyWhenAllPresent
    /\ (op = "wait_for_files" /\ Ended /\ ~Returned) =>
          \/ /\ exc = "SystemExit" /\ ret.status = 1
             /\ saved # <<>> /\ Last(saved) = "eof"
          \/ /\ exc = "KeyboardInterrupt"
             /\ saved # <<>> /\ Last(saved) = "interrupt"
          \/ /\ exc = "OSError"
             /\ detected = <<>> /\ saved = <<>>

C33_Witness ==
    /\ op = "wait_for_files" /\ Returned
    /\ params.required_files = <<"loader.melf", "other.bin">>
    /\ detected = << <<"loader.melf", "other.bin">>, <<"other.bin">>, <<>> >>
    /\ saved = <<"enter", "enter">>
    /\ ret = BoolV(TRUE)

\* the `getvar all` invocations of the call that ended with the given result
GetvarsWith(rcs) == {i \in 1..Len(log) : IsGetvar(log[i]) /\ log[i].rc \in rcs}

\* the text the tool wrote: stdout, a newline, stderr
GetvarText(inv) == StrV(inv.stdout \o <<"\n">> \o inv.stderr)

\* C34: in get_fastboot_vars a `getvar all` that exits non-zero is not a
\* failed retrieval: the call goes on as after a zero exit, issues nothing
\* more with skip_adb set and exactly one `fastboot reboot` otherwise, and
\* returns stdout + newline + stderr of the tool as they were written,
\* unless the operator interrupts the reboot back. Once `getvar all` was
\* issued, a call that ends raising without an interrupt is one whose
\* `getvar all` could not be launched, and it raises that launch error.
C34_NonZeroGetvarStillReturnsText ==
    op = "get_fastboot_vars" =>
        /\ \A i \in GetvarsWith({"nonzero"}) :
              /\ skip_adb => i = Len(log) /\ Returned
              /\ ~skip_adb =>
                    /\ Len(log) <= i + 1
                    /\ Len(log) = i + 1 => IsFastbootReboot(log[i + 1])
                    /\ (Ended /\ ~interrupted) => (Returned /\ Len(log) = i + 1)
              /\ Returned => ret = GetvarText(log[i])
              /\ Ended => exc # "CalledProcessError"
        /\ (Ended /\ ~Returned /\ ~interrupted /\ GetvarsWith(ToolResults) # {}) =>
              \E i \in GetvarsWith(LaunchErrors) : exc = LaunchException(log[i].rc)

C34_Witness ==
    /\ op = "get_fastboot_vars" /\ ~skip_adb /\ Returned
    /\ Len(log) >= 2
    /\ IsGetvar(log[Len(log) - 1]) /\ log[Len(log) - 1].rc = "nonzero"
    /\ log[Len(log) - 1].stdout = <<"o">>
    /\ log[Len(log) - 1].stderr = <<"(", "b", ")", " ", "v", ":", "1", "\n">>
    /\ IsFastbootReboot(Last(log)) /\ Last(log).rc = "nonzero"
    /\ ret = StrV(<<"o", "\n", "(", "b", ")", " ", "v", ":", "1", "\n">>)

====
